---------------------------- MODULE Spec2Model ----------------------------
(***************************************************************************)
(* Model of the s390x ABI lowering code of                                 *)
(* cranelift/codegen/src/isa/s390x/abi.rs.                                 *)
(*                                                                         *)
(* S390xMachineDeps::compute_arg_locs is modelled as a state machine that  *)
(* follows the code: the entry block (assertion, counters, return-area     *)
(* pointer), one step per iteration of the parameter loop, and the exit    *)
(* block (alignment, non-formal argument, implicit-pointer buffers,        *)
(* tail-call addend).                                                      *)
(*                                                                         *)
(* S390xMachineDeps::compute_frame_layout is modelled as one step applied  *)
(* to inputs chosen in the initial state.                                  *)
(*                                                                         *)
(* S390xMachineDeps::get_machine_env is modelled with several threads      *)
(* that call it concurrently, one step per atomic step of                  *)
(* OnceLock::get_or_init; get_regs_clobbered_by_call is a step of the same *)
(* threads.                                                                *)
(*                                                                         *)
(* The functions that emit instructions (gen_retval_loads,                 *)
(* gen_inline_probestack, gen_clobber_save, gen_clobber_restore,           *)
(* gen_tail_epilogue) append to the list insts; where a property is about  *)
(* the effect of the instructions, the list is then executed one           *)
(* instruction per step on a machine with a stack pointer, general         *)
(* registers and a memory.                                                 *)
(*                                                                         *)
(* Option<T> values are modelled as sets with at most one element:         *)
(* None is {} and Some(x) is {x}.  Indices keep Rust's 0-based numbering.  *)
(***************************************************************************)
EXTENDS Integers, Sequences, FiniteSets, TLC

VARIABLES
    call_conv,          \* input: isa::CallConv
    args_or_rets,       \* input: ArgsOrRets
    add_ret_area_ptr,   \* input: bool
    multi_ret,          \* input: flags.enable_multi_ret_implicit_sret()
    params,             \* the part of the params slice consumed so far
    next_gpr,           \* local counters of compute_arg_locs
    next_fpr,
    next_vr,
    next_stack,
    ret_area_ptr,       \* local Option<ABIArg>
    args,               \* the ArgsAccumulator's contents
    result,             \* Option<(u32, Option<usize>)>: the Ok value
    pc,                 \* "entry", "loop", "done" (Ok), "err" (Err), "panic"
    free                \* number of freely chosen parameters consumed so far

\* compute_frame_layout (call_conv and pc are shared with compute_arg_locs).
VARIABLES
    flags,                      \* input: enable_pinned_reg, preserve_frame_pointers
    regs,                       \* input: the clobbered registers
    incoming_args_size,         \* input
    tail_args_size,             \* input
    stackslots_size,            \* input
    fixed_frame_storage_size,   \* input
    outgoing_args_size,         \* input
    frame_layout                \* Option<FrameLayout>: the value returned

\* The variables only compute_arg_locs uses.
arg_locs_vars == <<args_or_rets, add_ret_area_ptr, multi_ret, params,
                   next_gpr, next_fpr, next_vr, next_stack, ret_area_ptr,
                   args, result, free>>

\* The variables only compute_frame_layout uses.
frame_vars == <<flags, regs, incoming_args_size, tail_args_size,
                stackslots_size, fixed_frame_storage_size,
                outgoing_args_size, frame_layout>>

\* get_machine_env and get_regs_clobbered_by_call, called by several
\* threads.
VARIABLES
    machine_env_cells,  \* the statics TAIL_MACHINE_ENV and SYSV_MACHINE_ENV
    thread_pc,          \* per thread: its position in get_machine_env
    thread_cc,          \* per thread: the call_conv of its call
    thread_env,         \* per thread: Option<MachineEnv> built by the closure
    constructed,        \* history, per cell: runs of the closure
    installed,          \* history, per cell: values stored into the cell
    returned,           \* history, per convention: the values returned
    clobbers            \* the last call of get_regs_clobbered_by_call

\* The variables only the registry uses.
registry_vars == <<machine_env_cells, thread_pc, thread_cc, thread_env,
                   constructed, installed, returned, clobbers>>

\* The functions that emit instructions (pc is shared with the functions
\* above).
VARIABLES
    insts,              \* the instructions emitted so far
    pos,                \* position in the loop of the emitting function
    info,               \* input of gen_retval_loads: CallInfo
    frame_size,         \* input of gen_inline_probestack
    guard_size,         \* input of gen_inline_probestack
    callee_pop_size,    \* input of gen_tail_epilogue
    dest,               \* input of gen_tail_epilogue: CallInstDest
    temp_dest,          \* second result of gen_tail_epilogue: Option<Reg>
    machine             \* the machine the emitted instructions run on

\* The variables only gen_retval_loads uses.
retval_vars == <<info>>

\* The variables of the functions whose instructions are run.
code_vars == <<frame_size, guard_size, callee_pop_size, dest, temp_dest, machine>>

\* The variables only the emitting functions use.
emit_vars == <<insts, pos, retval_vars, code_vars>>

\* The variables of the single-threaded lowering functions.
lowering_vars == <<call_conv, pc, arg_locs_vars, frame_vars, emit_vars>>

vars == <<lowering_vars, registry_vars>>

\* No call of compute_arg_locs is in progress.
ArgLocsIdle ==
    /\ args_or_rets = "Args"
    /\ add_ret_area_ptr = FALSE
    /\ multi_ret = FALSE
    /\ params = <<>>
    /\ next_gpr = 0
    /\ next_fpr = 0
    /\ next_vr = 0
    /\ next_stack = 0
    /\ ret_area_ptr = {}
    /\ args = <<>>
    /\ result = {}
    /\ free = 0

\* No call of compute_frame_layout is in progress.
FrameIdle ==
    /\ flags = [enable_pinned_reg |-> FALSE, preserve_frame_pointers |-> FALSE]
    /\ regs = <<>>
    /\ incoming_args_size = 0
    /\ tail_args_size = 0
    /\ stackslots_size = 0
    /\ fixed_frame_storage_size = 0
    /\ outgoing_args_size = 0
    /\ frame_layout = {}

\* No call of gen_retval_loads is in progress.
RetvalIdle ==
    info = [caller_conv |-> "SystemV", callee_conv |-> "SystemV",
            defs |-> <<>>]

\* No prologue, epilogue or stack probe is being emitted or run.
CodeIdle ==
    /\ frame_size = 0
    /\ guard_size = 0
    /\ callee_pop_size = 0
    /\ dest = [kind |-> "Direct"]
    /\ temp_dest = {}
    /\ machine = [gprs |-> <<>>, fprs |-> <<>>, mem |-> <<>>, trace |-> <<>>]

\* No emitting function is in progress.
EmitIdle ==
    /\ insts = <<>>
    /\ pos = 0
    /\ RetvalIdle
    /\ CodeIdle

(***************************************************************************)
(* Bounds of the model.                                                    *)
(***************************************************************************)
\* Number of freely chosen parameters that may follow a register-saturating
\* prefix of a signature (see PrefixStep and FreeStep below).
MaxFree == 2

\* Largest slot index at which the register tables are inspected.
MaxRegIdx == 8

\* Number of threads that call into the registry.
NumThreads == 2

Threads == 1..NumThreads

\* The two OnceLock statics of get_machine_env.
Cells == {"TAIL_MACHINE_ENV", "SYSV_MACHINE_ENV"}

\* OnceLock::new() for both statics, no thread in a call, nothing recorded.
RegistryIdle ==
    /\ machine_env_cells = [c \in Cells |-> [state |-> "incomplete", value |-> {}]]
    /\ thread_pc = [t \in Threads |-> "idle"]
    /\ thread_cc = [t \in Threads |-> "SystemV"]
    /\ thread_env = [t \in Threads |-> {}]
    /\ constructed = [c \in Cells |-> 0]
    /\ installed = [c \in Cells |-> <<>>]
    /\ returned = [cc \in {"SystemV", "Tail", "Winch"} |-> {}]
    /\ clobbers = {}

(***************************************************************************)
(* Small helpers.                                                          *)
(***************************************************************************)
Max(a, b) == IF a >= b THEN a ELSE b

Min(a, b) == IF a <= b THEN a ELSE b

\* machinst::abi::align_to: round x up to a multiple of the power of two a.
align_to(x, a) == ((x + a - 1) \div a) * a

(***************************************************************************)
(* ir::Type, as far as the ABI code looks at it.                           *)
(***************************************************************************)
IntTypes == {"I8", "I16", "I32", "I64"}

FloatTypes == {"F16", "F32", "F64"}

Vector128Types == {"I8X16", "I16X8", "I32X4", "I64X2", "F32X4", "F64X2"}

Vector64Types == {"I8X8", "I16X4", "I32X2", "F32X2"}

Vector32Types == {"I8X4", "I16X2"}

Types == IntTypes \cup FloatTypes \cup Vector128Types \cup Vector64Types
             \cup Vector32Types \cup {"I128", "F128"}

ty_bits(ty) ==
    CASE ty \in {"I8"} -> 8
      [] ty \in {"I16", "F16"} -> 16
      [] ty \in {"I32", "F32"} \cup Vector32Types -> 32
      [] ty \in {"I64", "F64"} \cup Vector64Types -> 64
      [] ty \in {"I128", "F128"} \cup Vector128Types -> 128

is_vector(ty) == ty \in Vector128Types \cup Vector64Types \cup Vector32Types

lane_count(ty) ==
    CASE ty \in {"I8X16"} -> 16
      [] ty \in {"I16X8", "I8X8"} -> 8
      [] ty \in {"I32X4", "F32X4", "I16X4", "I8X4"} -> 4
      [] ty \in {"I64X2", "F64X2", "I32X2", "F32X2", "I16X2"} -> 2
      [] OTHER -> 1

(***************************************************************************)
(* Registers.                                                              *)
(***************************************************************************)
gpr(n) == [class |-> "Int", hw_enc |-> n]

vr(n) == [class |-> "Float", hw_enc |-> n]

(***************************************************************************)
(* ABI register usage.                                                     *)
(***************************************************************************)
in_int_reg(ty) == ty \in {"I8", "I16", "I32", "I64"}

in_flt_reg(ty) == ty \in {"F16", "F32", "F64"}

in_vec_reg(ty) == is_vector(ty) /\ ty_bits(ty) = 128

\* Variant: r6 is an argument register only under the tail-call convention.
get_intreg_for_arg_r6_tail_only(cc, idx) ==
    CASE idx = 0 -> {gpr(2)}
      [] idx = 1 -> {gpr(3)}
      [] idx = 2 -> {gpr(4)}
      [] idx = 3 -> {gpr(5)}
      [] idx = 4 /\ cc = "Tail" -> {gpr(6)}
      [] idx = 5 /\ cc = "Tail" -> {gpr(7)}
      [] OTHER -> {}

\* Variant: r7 is an argument register under every convention.
get_intreg_for_arg_r7_always(cc, idx) ==
    CASE idx = 0 -> {gpr(2)}
      [] idx = 1 -> {gpr(3)}
      [] idx = 2 -> {gpr(4)}
      [] idx = 3 -> {gpr(5)}
      [] idx = 4 -> {gpr(6)}
      [] idx = 5 -> {gpr(7)}
      [] OTHER -> {}

\* A variant in which the second integer argument register is r2 again.
get_intreg_for_arg_r2_twice(cc, idx) ==
    CASE idx = 0 -> {gpr(2)}
      [] idx = 1 -> {gpr(2)}
      [] idx = 2 -> {gpr(4)}
      [] idx = 3 -> {gpr(5)}
      [] idx = 4 -> {gpr(6)}
      [] idx = 5 /\ cc = "Tail" -> {gpr(7)}
      [] OTHER -> {}

get_intreg_for_arg(cc, idx) ==
    CASE idx = 0 -> {gpr(2)}
      [] idx = 1 -> {gpr(3)}
      [] idx = 2 -> {gpr(4)}
      [] idx = 3 -> {gpr(5)}
      [] idx = 4 -> {gpr(6)}
      [] idx = 5 /\ cc = "Tail" -> {gpr(7)}
      [] OTHER -> {}

get_fltreg_for_arg(idx) ==
    CASE idx = 0 -> {vr(0)}
      [] idx = 1 -> {vr(2)}
      [] idx = 2 -> {vr(4)}
      [] idx = 3 -> {vr(6)}
      [] OTHER -> {}

get_vecreg_for_arg(idx) ==
    CASE idx = 0 -> {vr(24)}
      [] idx = 1 -> {vr(25)}
      [] idx = 2 -> {vr(26)}
      [] idx = 3 -> {vr(27)}
      [] idx = 4 -> {vr(28)}
      [] idx = 5 -> {vr(29)}
      [] idx = 6 -> {vr(30)}
      [] idx = 7 -> {vr(31)}
      [] OTHER -> {}

get_intreg_for_ret(cc, idx) ==
    CASE idx = 0 -> {gpr(2)}
      [] idx = 1 -> {gpr(3)}
      [] idx = 2 -> {gpr(4)}
      [] idx = 3 -> {gpr(5)}
      [] idx = 4 /\ cc = "Tail" -> {gpr(6)}
      [] idx = 5 /\ cc = "Tail" -> {gpr(7)}
      [] OTHER -> {}

get_fltreg_for_ret(idx) ==
    CASE idx = 0 -> {vr(0)}
      [] idx = 1 -> {vr(2)}
      [] idx = 2 -> {vr(4)}
      [] idx = 3 -> {vr(6)}
      [] OTHER -> {}

get_vecreg_for_ret(idx) ==
    CASE idx = 0 -> {vr(24)}
      [] idx = 1 -> {vr(25)}
      [] idx = 2 -> {vr(26)}
      [] idx = 3 -> {vr(27)}
      [] idx = 4 -> {vr(28)}
      [] idx = 5 -> {vr(29)}
      [] idx = 6 -> {vr(30)}
      [] idx = 7 -> {vr(31)}
      [] OTHER -> {}

\* The size of the register save area.
REG_SAVE_AREA_SIZE == 160

(***************************************************************************)
(* Descriptors and locations.                                              *)
(***************************************************************************)
\* ir::AbiParam { value_type, purpose, extension }
AbiParam(ty, ext, purpose) ==
    [value_type |-> ty, extension |-> ext, purpose |-> purpose]

\* ir::AbiParam::new(ty): a normal parameter without extension.
AbiParam_new(ty) == AbiParam(ty, "None", "Normal")

\* ABIArgSlot::Reg { reg, ty, extension }
SlotReg(reg, ty, ext) ==
    [kind |-> "Reg", reg |-> reg, ty |-> ty, extension |-> ext]

\* ABIArgSlot::Stack { offset, ty, extension }
SlotStack(offset, ty, ext) ==
    [kind |-> "Stack", offset |-> offset, ty |-> ty, extension |-> ext]

\* ABIArg::Slots { slots: smallvec![slot], purpose }
ABIArgSlots(slot, purpose) ==
    [kind |-> "Slots", slots |-> <<slot>>, purpose |-> purpose]

\* ABIArg::ImplicitPtrArg { pointer, offset, ty, purpose }
ABIArgImplicitPtr(slot, offset, ty, purpose) ==
    [kind |-> "ImplicitPtrArg", pointer |-> slot, offset |-> offset,
     ty |-> ty, purpose |-> purpose]

\* ABIArg::reg(reg, ty, extension, purpose)
ABIArg_reg(reg, ty, ext, purpose) == ABIArgSlots(SlotReg(reg, ty, ext), purpose)

(***************************************************************************)
(* compute_arg_locs: the pieces of the loop body.                          *)
(***************************************************************************)
\* Variant: the return-area pointer does not advance the counter.
InitialGpr_zero(add_ptr) == 0

\* The value of next_gpr after the entry block: the return-area pointer
\* takes the first integer argument register.
InitialGpr(add_ptr) == IF add_ptr THEN 1 ELSE 0

\* The return-area pointer synthesized at entry (None when not requested).
MakeRetAreaPtr(cc, add_ptr) ==
    IF add_ptr
    THEN {ABIArg_reg(CHOOSE r \in get_intreg_for_arg(cc, 0) : TRUE,
                     "I64", "None", "Normal")}
    ELSE {}

\* Variant: integer arguments are looked up in the return-register table.
Classify_int_ret_table(cc, dir, param, gprs, fprs, vrs) ==
    IF in_int_reg(param.value_type)
    THEN [counter |-> "gpr", candidate |-> get_intreg_for_ret(cc, gprs),
          implicit_ref |-> {}, param |-> param]
    ELSE IF in_flt_reg(param.value_type)
    THEN [counter |-> "fpr",
          candidate |-> IF dir = "Args" THEN get_fltreg_for_arg(fprs)
                                        ELSE get_fltreg_for_ret(fprs),
          implicit_ref |-> {}, param |-> param]
    ELSE IF in_vec_reg(param.value_type)
    THEN [counter |-> "vr",
          candidate |-> IF dir = "Args" THEN get_vecreg_for_arg(vrs)
                                        ELSE get_vecreg_for_ret(vrs),
          implicit_ref |-> {}, param |-> param]
    ELSE IF dir = "Rets"
    THEN [counter |-> "gpr", candidate |-> {}, implicit_ref |-> {},
          param |-> param]
    ELSE [counter |-> "gpr", candidate |-> get_intreg_for_arg(cc, gprs),
          implicit_ref |-> {param.value_type},
          param |-> AbiParam_new("I64")]

\* Variant: the float candidate is looked up at the integer counter.
Classify_flt_at_gpr(cc, dir, param, gprs, fprs, vrs) ==
    IF in_int_reg(param.value_type)
    THEN [counter |-> "gpr",
          candidate |-> IF dir = "Args" THEN get_intreg_for_arg(cc, gprs)
                                        ELSE get_intreg_for_ret(cc, gprs),
          implicit_ref |-> {}, param |-> param]
    ELSE IF in_flt_reg(param.value_type)
    THEN [counter |-> "fpr",
          candidate |-> IF dir = "Args" THEN get_fltreg_for_arg(gprs)
                                        ELSE get_fltreg_for_ret(gprs),
          implicit_ref |-> {}, param |-> param]
    ELSE IF in_vec_reg(param.value_type)
    THEN [counter |-> "vr",
          candidate |-> IF dir = "Args" THEN get_vecreg_for_arg(vrs)
                                        ELSE get_vecreg_for_ret(vrs),
          implicit_ref |-> {}, param |-> param]
    ELSE IF dir = "Rets"
    THEN [counter |-> "gpr", candidate |-> {}, implicit_ref |-> {},
          param |-> param]
    ELSE [counter |-> "gpr", candidate |-> get_intreg_for_arg(cc, gprs),
          implicit_ref |-> {param.value_type},
          param |-> AbiParam_new("I64")]

\* The classification of one parameter: which counter it uses, the candidate
\* register, the type passed by implicit reference (if any) and the
\* parameter as it is placed (replaced by an I64 pointer for an implicit
\* reference).
Classify(cc, dir, param, gprs, fprs, vrs) ==
    IF in_int_reg(param.value_type)
    THEN [counter |-> "gpr",
          candidate |-> IF dir = "Args" THEN get_intreg_for_arg(cc, gprs)
                                        ELSE get_intreg_for_ret(cc, gprs),
          implicit_ref |-> {}, param |-> param]
    ELSE IF in_flt_reg(param.value_type)
    THEN [counter |-> "fpr",
          candidate |-> IF dir = "Args" THEN get_fltreg_for_arg(fprs)
                                        ELSE get_fltreg_for_ret(fprs),
          implicit_ref |-> {}, param |-> param]
    ELSE IF in_vec_reg(param.value_type)
    THEN [counter |-> "vr",
          candidate |-> IF dir = "Args" THEN get_vecreg_for_arg(vrs)
                                        ELSE get_vecreg_for_ret(vrs),
          implicit_ref |-> {}, param |-> param]
    ELSE IF dir = "Rets"
    THEN \* For return values, just force them to memory.
         [counter |-> "gpr", candidate |-> {}, implicit_ref |-> {},
          param |-> param]
    ELSE \* For arguments, implicitly convert to pointer type.
         [counter |-> "gpr", candidate |-> get_intreg_for_arg(cc, gprs),
          implicit_ref |-> {param.value_type},
          param |-> AbiParam_new("I64")]

\* Variant: the flag enable_multi_ret_implicit_sret is not consulted.
RetsUnsupported_ignores_flag(dir, enable_multi_ret_implicit_sret) ==
    dir = "Rets"

\* A value without a register is refused: return values are assigned and
\* the flag enable_multi_ret_implicit_sret is off.
RetsUnsupported(dir, enable_multi_ret_implicit_sret) ==
    dir = "Rets" /\ ~enable_multi_ret_implicit_sret

\* Variant: the running stack offset is not advanced past the slot.
StackSlot_no_advance(stack, param) ==
    LET size == ty_bits(param.value_type) \div 8
        slot_size == Max(size, 8)
        slot_align == Min(slot_size, 8)
        base == align_to(stack, slot_align)
        offset == IF size < slot_size /\ param.extension = "None"
                  THEN slot_size - size
                  ELSE 0
    IN  [slot |-> SlotStack(base + offset, param.value_type, param.extension),
         next_stack |-> base]

\* Variant: every value is placed at the low address of its slot.
StackSlot_left_justified(stack, param) ==
    LET size == ty_bits(param.value_type) \div 8
        slot_size == Max(size, 8)
        slot_align == Min(slot_size, 8)
        base == align_to(stack, slot_align)
    IN  [slot |-> SlotStack(base, param.value_type, param.extension),
         next_stack |-> base + slot_size]

\* The stack slot of a parameter that got no register, and the stack offset
\* after it.
StackSlot(stack, param) ==
    LET size == ty_bits(param.value_type) \div 8
        slot_size == Max(size, 8)
        slot_align == Min(slot_size, 8)
        base == align_to(stack, slot_align)
        offset == IF size < slot_size /\ param.extension = "None"
                  THEN slot_size - size
                  ELSE 0
    IN  [slot |-> SlotStack(base + offset, param.value_type, param.extension),
         next_stack |-> base + slot_size]

\* Variant: a by-reference value is recorded as an ordinary location.
MakeArg_always_slots(slot, implicit_ref, param) ==
    ABIArgSlots(slot, param.purpose)

\* The ABIArg pushed for a placed parameter.
MakeArg(slot, implicit_ref, param) ==
    IF implicit_ref # {}
    THEN ABIArgImplicitPtr(slot, 0, CHOOSE ty \in implicit_ref : TRUE,
                           param.purpose)
    ELSE ABIArgSlots(slot, param.purpose)

\* The assertion on an implicitly referenced type.
ImplicitRefAligned(implicit_ref) ==
    \A ty \in implicit_ref : (ty_bits(ty) \div 8) % 8 = 0

(***************************************************************************)
(* compute_arg_locs: the pieces of the exit block.                         *)
(***************************************************************************)
\* Variant: the running offset is not advanced past a buffer.
RECURSIVE AllocBuffers_no_advance(_, _, _)
AllocBuffers_no_advance(as, i, stack) ==
    IF i > Len(as)
    THEN [args |-> as, next_stack |-> stack]
    ELSE IF as[i].kind = "ImplicitPtrArg"
         THEN AllocBuffers_no_advance([as EXCEPT ![i].offset = stack], i + 1,
                                      stack)
         ELSE AllocBuffers_no_advance(as, i + 1, stack)

\* The loop over args.args_mut(): every ImplicitPtrArg gets its buffer at
\* the running stack offset.  Returns the updated list and the final offset.
RECURSIVE AllocBuffers(_, _, _)
AllocBuffers(as, i, stack) ==
    IF i > Len(as)
    THEN [args |-> as, next_stack |-> stack]
    ELSE IF as[i].kind = "ImplicitPtrArg"
         THEN AllocBuffers([as EXCEPT ![i].offset = stack], i + 1,
                           stack + (ty_bits(as[i].ty) \div 8))
         ELSE AllocBuffers(as, i + 1, stack)

\* Variant: the addend is added to an empty argument area too.
TailCallAddend_also_empty(cc, dir, stack) ==
    IF cc = "Tail" /\ dir = "Args"
    THEN stack + REG_SAVE_AREA_SIZE
    ELSE stack

\* Variant: the addend is added to the return-value area too.
TailCallAddend_also_rets(cc, dir, stack) ==
    IF cc = "Tail" /\ stack # 0
    THEN stack + REG_SAVE_AREA_SIZE
    ELSE stack

\* The tail-call correction of the argument area size.
TailCallAddend(cc, dir, stack) ==
    IF cc = "Tail" /\ dir = "Args" /\ stack # 0
    THEN stack + REG_SAVE_AREA_SIZE
    ELSE stack

(***************************************************************************)
(* The inputs explored.                                                    *)
(***************************************************************************)
CallConvs == {"SystemV", "Tail", "Winch"}

\* The parameter descriptors a signature is built from: every register
\* class, sub-word values with and without extension, values that fit no
\* register class (16, 8 and 4 bytes), and a struct argument.
ParamChoices ==
    {AbiParam("I8", "None", "Normal"),
     AbiParam("I8", "Sext", "Normal"),
     AbiParam("I32", "Uext", "Normal"),
     AbiParam("I64", "None", "Normal"),
     AbiParam("F32", "None", "Normal"),
     AbiParam("F64", "None", "Normal"),
     AbiParam("I8X16", "None", "Normal"),
     AbiParam("I128", "None", "Normal"),
     AbiParam("I32X2", "None", "Normal"),
     AbiParam("I8X4", "None", "Normal"),
     AbiParam("I64", "None", "StructArgument")}

\* Whether a register of the class of `param` is free at the counters.
RegFree(cc, dir, param, gprs, fprs, vrs) ==
    Classify(cc, dir, param, gprs, fprs, vrs).candidate # {}

\* A class is settled when none of its registers is taken yet or all are.
IntSettled ==
    \/ next_gpr = InitialGpr(add_ret_area_ptr)
    \/ ~RegFree(call_conv, args_or_rets, AbiParam_new("I64"), next_gpr, 0, 0)

FltSettled ==
    \/ next_fpr = 0
    \/ ~RegFree(call_conv, args_or_rets, AbiParam_new("F64"), 0, next_fpr, 0)

VecSettled ==
    \/ next_vr = 0
    \/ ~RegFree(call_conv, args_or_rets, AbiParam_new("I8X16"), 0, 0, next_vr)

\* The signatures explored are a saturating prefix followed by at most
\* MaxFree parameters chosen freely from ParamChoices.  A saturating prefix
\* uses up all registers of some of the classes: all the I64 the integer
\* registers take (or none), then all the F64 the float registers take (or
\* none), then all the I8X16 the vector registers take (or none).
\* `param` continues the saturating prefix:
PrefixStep(param) ==
    /\ free = 0
    /\ RegFree(call_conv, args_or_rets, param, next_gpr, next_fpr, next_vr)
    /\ \/ /\ param = AbiParam_new("I64")
          /\ next_fpr = 0 /\ next_vr = 0
       \/ /\ param = AbiParam_new("F64")
          /\ IntSettled /\ next_vr = 0
       \/ /\ param = AbiParam_new("I8X16")
          /\ IntSettled /\ FltSettled

\* `param` is one of the freely chosen parameters after the prefix:
FreeStep(param) ==
    /\ free < MaxFree
    /\ free > 0 \/ (IntSettled /\ FltSettled /\ VecSettled)

(***************************************************************************)
(* compute_arg_locs as a state machine.                                    *)
(***************************************************************************)
\* A call of compute_arg_locs with some inputs; the accumulator is empty.
\* A return-area pointer is only requested for arguments.
Init ==
    /\ call_conv \in CallConvs
    /\ args_or_rets \in {"Args", "Rets"}
    /\ add_ret_area_ptr \in BOOLEAN
    /\ add_ret_area_ptr => args_or_rets = "Args"
    /\ multi_ret \in BOOLEAN
    /\ params = <<>>
    /\ next_gpr = 0
    /\ next_fpr = 0
    /\ next_vr = 0
    /\ next_stack = 0
    /\ ret_area_ptr = {}
    /\ args = <<>>
    /\ result = {}
    /\ pc = "entry"
    /\ free = 0
    /\ FrameIdle
    /\ RegistryIdle
    /\ EmitIdle

\* The entry block: the assertion on the convention, the counters, the
\* return-area pointer.
Entry ==
    /\ pc = "entry"
    /\ IF call_conv = "Winch"
       THEN /\ pc' = "panic"
            /\ UNCHANGED <<next_gpr, ret_area_ptr>>
       ELSE /\ pc' = "loop"
            /\ next_gpr' = InitialGpr(add_ret_area_ptr)
            /\ ret_area_ptr' = MakeRetAreaPtr(call_conv, add_ret_area_ptr)
    /\ UNCHANGED <<call_conv, args_or_rets, add_ret_area_ptr, multi_ret,
                   params, next_fpr, next_vr, next_stack, args, result,
                   free>>
    /\ UNCHANGED frame_vars
    /\ UNCHANGED registry_vars
    /\ UNCHANGED emit_vars

\* One iteration of the loop over params, for the next parameter `param`.
LoopIter(param) ==
    /\ pc = "loop"
    /\ \/ PrefixStep(param) /\ free' = free
       \/ FreeStep(param) /\ free' = free + 1
    /\ params' = Append(params, param)
    /\ IF param.purpose = "StructArgument"
       THEN /\ pc' = "panic"
            /\ UNCHANGED <<next_gpr, next_fpr, next_vr, next_stack, args>>
       ELSE LET c == Classify(call_conv, args_or_rets, param,
                              next_gpr, next_fpr, next_vr)
                s == StackSlot(next_stack, c.param)
            IN  IF c.candidate # {}
                THEN \* a register of the class is free
                     /\ next_gpr' = next_gpr + (IF c.counter = "gpr" THEN 1 ELSE 0)
                     /\ next_fpr' = next_fpr + (IF c.counter = "fpr" THEN 1 ELSE 0)
                     /\ next_vr' = next_vr + (IF c.counter = "vr" THEN 1 ELSE 0)
                     /\ next_stack' = next_stack
                     /\ IF ImplicitRefAligned(c.implicit_ref)
                        THEN /\ args' = Append(args,
                                    MakeArg(SlotReg(CHOOSE r \in c.candidate : TRUE,
                                                    c.param.value_type,
                                                    c.param.extension),
                                            c.implicit_ref, c.param))
                             /\ pc' = "loop"
                        ELSE /\ args' = args
                             /\ pc' = "panic"
                ELSE IF RetsUnsupported(args_or_rets, multi_ret)
                THEN \* Err(CodegenError::Unsupported)
                     /\ pc' = "err"
                     /\ UNCHANGED <<next_gpr, next_fpr, next_vr, next_stack, args>>
                ELSE \* a stack slot
                     /\ next_stack' = s.next_stack
                     /\ UNCHANGED <<next_gpr, next_fpr, next_vr>>
                     /\ IF ImplicitRefAligned(c.implicit_ref)
                        THEN /\ args' = Append(args,
                                    MakeArg(s.slot, c.implicit_ref, c.param))
                             /\ pc' = "loop"
                        ELSE /\ args' = args
                             /\ pc' = "panic"
    /\ UNCHANGED <<call_conv, args_or_rets, add_ret_area_ptr, multi_ret,
                   ret_area_ptr, result>>
    /\ UNCHANGED frame_vars
    /\ UNCHANGED registry_vars
    /\ UNCHANGED emit_vars

\* The exit block, once the params slice is exhausted.
Finish ==
    /\ pc = "loop"
    /\ LET aligned == align_to(next_stack, 8)
           pushed == IF ret_area_ptr # {}
                     THEN Append(args, CHOOSE a \in ret_area_ptr : TRUE)
                     ELSE args
           extra_arg == IF ret_area_ptr # {} THEN {Len(pushed) - 1} ELSE {}
           b == AllocBuffers(pushed, 1, aligned)
           total == TailCallAddend(call_conv, args_or_rets, b.next_stack)
       IN  /\ args' = b.args
           /\ next_stack' = total
           /\ result' = {[stack |-> total, extra_arg |-> extra_arg]}
    /\ pc' = "done"
    /\ UNCHANGED <<call_conv, args_or_rets, add_ret_area_ptr, multi_ret,
                   params, next_gpr, next_fpr, next_vr, ret_area_ptr, free>>
    /\ UNCHANGED frame_vars
    /\ UNCHANGED registry_vars
    /\ UNCHANGED emit_vars

Next ==
    \/ Entry
    \/ \E param \in ParamChoices : LoopIter(param)
    \/ Finish

Spec == Init /\ [][Next]_vars

(***************************************************************************)
(* Vocabulary of the properties.                                           *)
(***************************************************************************)
Done == pc = "done"

\* The Ok value returned.
Returned == CHOOSE r \in result : TRUE

\* The single slot of a location: the slot itself, or the slot holding the
\* pointer of a by-reference argument.
ArgSlot(a) == IF a.kind = "Slots" THEN a.slots[1] ELSE a.pointer

InReg(a) == ArgSlot(a).kind = "Reg"

OnStack(a) == ArgSlot(a).kind = "Stack"

RECURSIVE Sum(_)
Sum(seq) == IF seq = <<>> THEN 0 ELSE Head(seq) + Sum(Tail(seq))

\* The stack slots of the locations, in parameter order.
StackSlots == SelectSeq([i \in 1..Len(args) |-> ArgSlot(args[i])],
                        LAMBDA sl : sl.kind = "Stack")

\* Bytes of the value held by a slot, and bytes of the slot itself.
ValueBytes(sl) == ty_bits(sl.ty) \div 8

SlotBytes(sl) == Max(ValueBytes(sl), 8)

\* Low-address padding of a right-justified value.
Padding(sl) ==
    IF sl.extension = "None" /\ ValueBytes(sl) < SlotBytes(sl)
    THEN SlotBytes(sl) - ValueBytes(sl)
    ELSE 0

\* Bytes of the backing buffers of the by-reference arguments.
BufferBytes ==
    Sum([i \in 1..Len(args) |->
            IF args[i].kind = "ImplicitPtrArg"
            THEN ty_bits(args[i].ty) \div 8 ELSE 0])

\* Bytes of all stack slots.
StackSlotBytes == Sum([k \in 1..Len(StackSlots) |-> SlotBytes(StackSlots[k])])

\* The signature consumed is exactly n copies of I64.
AllI64(n) == params = [i \in 1..n |-> AbiParam_new("I64")]

\* Number of integer argument registers of a convention.
NumIntArgRegs(cc) ==
    Cardinality({i \in 0..MaxRegIdx : get_intreg_for_arg(cc, i) # {}})

\* Number of parameters the loop has placed (the non-formal return-area
\* pointer is appended after them).
NumPlaced == IF Done /\ add_ret_area_ptr THEN Len(args) - 1 ELSE Len(args)

(***************************************************************************)
(* C1.                                                                     *)
(***************************************************************************)
C1_Case ==
    /\ Done /\ call_conv = "SystemV" /\ args_or_rets = "Args"
    /\ ~add_ret_area_ptr /\ AllI64(6)

\* C1 as stated: (i64 x 6) under SystemV without return-area pointer puts
\* the first four arguments in r2..r5, the fifth and sixth on the stack at
\* offsets 0 and 8, and returns a stack size of 16.
C1_Original ==
    C1_Case =>
        /\ \A i \in 1..4 : InReg(args[i]) /\ ArgSlot(args[i]).reg = gpr(i + 1)
        /\ OnStack(args[5]) /\ ArgSlot(args[5]).offset = 0
        /\ OnStack(args[6]) /\ ArgSlot(args[6]).offset = 8
        /\ Returned.stack = 16

\* C1 amended: (i64 x 6) under SystemV without return-area pointer puts the
\* first five arguments in r2, r3, r4, r5, r6 and the sixth on the stack at
\* offset 0, and returns a stack size of 8 and no extra argument index.
C1_SixI64SystemV ==
    C1_Case =>
        /\ Len(args) = 6
        /\ \A i \in 1..5 :
              args[i] = ABIArgSlots(SlotReg(gpr(i + 1), "I64", "None"), "Normal")
        /\ args[6] = ABIArgSlots(SlotStack(0, "I64", "None"), "Normal")
        /\ Returned = [stack |-> 8, extra_arg |-> {}]

C1_Witness == C1_Case

(***************************************************************************)
(* C2.                                                                     *)
(***************************************************************************)
IntArgIdx(cc) == {i \in 0..MaxRegIdx : get_intreg_for_arg(cc, i) # {}}

\* The integer registers handed out to arguments so far all come from the
\* table of the convention in use.
IntArgRegsFromTable ==
    args_or_rets = "Args" =>
        \A i \in 1..Len(args) :
            (InReg(args[i]) /\ ArgSlot(args[i]).reg.class = "Int") =>
                \E idx \in IntArgIdx(call_conv) :
                    ArgSlot(args[i]).reg \in get_intreg_for_arg(call_conv, idx)

\* C2 as stated: Tail offers exactly two more integer argument registers
\* than SystemV, and every SystemV register is available at the same index
\* under Tail.
C2_Original ==
    /\ IntArgRegsFromTable
    /\ Cardinality(IntArgIdx("Tail")) = Cardinality(IntArgIdx("SystemV")) + 2
    /\ \A i \in IntArgIdx("SystemV") :
          get_intreg_for_arg("Tail", i) = get_intreg_for_arg("SystemV", i)

\* C2 amended: Tail offers exactly one more integer argument register than
\* SystemV (r7, at index 5; r2..r6 at indices 0..4 are argument registers
\* under both), and every SystemV register is available at the same index
\* under Tail.
C2_TailOneMoreIntArgReg ==
    /\ IntArgRegsFromTable
    /\ Cardinality(IntArgIdx("Tail")) = Cardinality(IntArgIdx("SystemV")) + 1
    /\ IntArgIdx("SystemV") = 0..4
    /\ IntArgIdx("Tail") = 0..5
    /\ get_intreg_for_arg("Tail", 5) = {gpr(7)}
    /\ \A i \in IntArgIdx("SystemV") :
          /\ get_intreg_for_arg("SystemV", i) = {gpr(i + 2)}
          /\ get_intreg_for_arg("Tail", i) = get_intreg_for_arg("SystemV", i)

\* The extra register in use: under Tail the sixth integer argument is in
\* r7, a slot index that SystemV does not have.
C2_Witness ==
    /\ call_conv = "Tail" /\ args_or_rets = "Args" /\ ~add_ret_area_ptr
    /\ AllI64(6) /\ Len(args) = 6
    /\ InReg(args[6]) /\ ArgSlot(args[6]).reg = gpr(7)
    /\ get_intreg_for_arg("SystemV", 5) = {}

(***************************************************************************)
(* C3.                                                                     *)
(***************************************************************************)
\* Every location, the return-area pointer and the pointers of by-reference
\* values included, is a register.
AllInRegisters == \A i \in 1..Len(args) : InReg(args[i])

NoImplicitPtr == \A i \in 1..Len(args) : args[i].kind # "ImplicitPtrArg"

\* C3 as stated: when every parameter of an argument signature (with the
\* return-area pointer and the pointers substituted for by-reference values)
\* receives a register, the total stack size is 0.
C3_Original ==
    (Done /\ args_or_rets = "Args" /\ AllInRegisters) => Returned.stack = 0

\* C3 amended: when every parameter receives a register and no parameter is
\* passed by implicit reference, the total stack size is 0 (a by-reference
\* value adds its buffer to the stack area even when its pointer is in a
\* register).
C3_AllRegsNoStack ==
    (Done /\ AllInRegisters /\ NoImplicitPtr) => Returned.stack = 0

C3_Witness ==
    /\ Done /\ call_conv = "Tail" /\ args_or_rets = "Args" /\ add_ret_area_ptr
    /\ AllInRegisters /\ NoImplicitPtr
    /\ Len(args) >= 3
    /\ Returned.stack = 0

(***************************************************************************)
(* C4.                                                                     *)
(***************************************************************************)
IntParamsOnly == \A i \in 1..Len(params) : params[i].value_type \in IntTypes

\* The integer arguments assigned: the parameters and, when requested, the
\* return-area pointer, which is itself an I64 argument.
NumIntArgs == Len(params) + (IF add_ret_area_ptr THEN 1 ELSE 0)

\* C4: assigning N integer-typed arguments, N at most the number of integer
\* argument registers of the convention, yields N locations that each hold
\* exactly one register slot, no stack slot, and a total stack size of 0.
C4_IntArgsRoundTrip ==
    (/\ Done /\ args_or_rets = "Args" /\ IntParamsOnly
     /\ NumIntArgs <= NumIntArgRegs(call_conv))
    => /\ Len(args) = NumIntArgs
       /\ \A i \in 1..Len(args) :
            /\ args[i].kind = "Slots"
            /\ Len(args[i].slots) = 1
            /\ args[i].slots[1].kind = "Reg"
            /\ args[i].slots[1].reg.class = "Int"
       /\ StackSlots = <<>>
       /\ Returned.stack = 0

C4_Witness ==
    /\ Done /\ args_or_rets = "Args" /\ IntParamsOnly /\ ~add_ret_area_ptr
    /\ Len(params) = NumIntArgRegs(call_conv)
    /\ call_conv = "SystemV"
    /\ Returned.stack = 0

(***************************************************************************)
(* C5.                                                                     *)
(***************************************************************************)
OffsetsMonotonic ==
    \A k \in 2..Len(StackSlots) :
        StackSlots[k - 1].offset <= StackSlots[k].offset

\* C5 as stated: stack-slot offsets are non-decreasing in parameter order
\* and every recorded offset is a multiple of min(slot_size, 8).
C5_Original ==
    /\ OffsetsMonotonic
    /\ \A k \in 1..Len(StackSlots) :
          StackSlots[k].offset % Min(SlotBytes(StackSlots[k]), 8) = 0

\* C5 amended: stack-slot offsets are non-decreasing in parameter order and
\* the base of every slot, its recorded offset less the padding of a
\* right-justified value, is a multiple of min(slot_size, 8); the recorded
\* offset itself is such a multiple unless the value is right-justified.
C5_OffsetsMonotonicAligned ==
    /\ OffsetsMonotonic
    /\ \A k \in 1..Len(StackSlots) :
          (StackSlots[k].offset - Padding(StackSlots[k]))
              % Min(SlotBytes(StackSlots[k]), 8) = 0

C5_Witness ==
    /\ Len(StackSlots) >= 2
    /\ Padding(StackSlots[1]) > 0
    /\ StackSlots[1].offset % 8 # 0
    /\ StackSlots[1].offset < StackSlots[2].offset

(***************************************************************************)
(* C6.                                                                     *)
(***************************************************************************)
\* The low address of the k-th stack slot: the bytes of the slots before it.
SlotBase(k) == Sum([j \in 1..(k - 1) |-> SlotBytes(StackSlots[j])])

\* C6: a spilled value smaller than its slot with extension None is recorded
\* at slot_base + (slot_size - size), with sign or zero extension at
\* slot_base + 0; either way the running stack offset advances by the full
\* slot size.
C6_RightJustified ==
    /\ \A k \in 1..Len(StackSlots) :
          LET sl == StackSlots[k]
          IN  IF ValueBytes(sl) < 8 /\ sl.extension = "None"
              THEN sl.offset = SlotBase(k) + (8 - ValueBytes(sl))
              ELSE sl.offset = SlotBase(k)
    /\ pc = "loop" => next_stack = StackSlotBytes

C6_Witness ==
    /\ pc = "loop"
    /\ \E k \in 1..Len(StackSlots) :
          /\ StackSlots[k].ty = "I8" /\ StackSlots[k].extension = "None"
          /\ StackSlots[k].offset = SlotBase(k) + 7
    /\ \E k \in 1..Len(StackSlots) :
          /\ StackSlots[k].ty = "I8" /\ StackSlots[k].extension = "Sext"
          /\ StackSlots[k].offset = SlotBase(k)
    /\ next_stack = 16

(***************************************************************************)
(* C7.                                                                     *)
(***************************************************************************)
\* The parameter is placed through the integer counter: an integer-typed
\* value, or (for arguments) the pointer substituted for a value that fits
\* no register class.
IsIntClass(p) ==
    \/ in_int_reg(p.value_type)
    \/ /\ args_or_rets = "Args"
       /\ ~in_flt_reg(p.value_type) /\ ~in_vec_reg(p.value_type)

\* The number of integer-class parameters before the i-th parameter.
IntOrdinal(i) == Cardinality({j \in 1..(i - 1) : IsIntClass(params[j])})

\* C7: with add_ret_area_ptr the return-area pointer is in r2 as an I64, the
\* k-th integer-class parameter (from 0) receives the integer argument
\* register of slot k+1 (r3 onward) as long as that slot exists, the pointer
\* is the last element of the list and the returned index is its position.
\* Without the flag the index is None and the first integer parameter
\* receives r2.
C7_RetAreaPtr ==
    Done =>
        IF add_ret_area_ptr
        THEN /\ Len(args) = Len(params) + 1
             /\ args[Len(args)]
                    = ABIArgSlots(SlotReg(gpr(2), "I64", "None"), "Normal")
             /\ Returned.extra_arg = {Len(args) - 1}
             /\ \A i \in 1..Len(params) :
                    IsIntClass(params[i]) =>
                        IF get_intreg_for_arg(call_conv, IntOrdinal(i) + 1) # {}
                        THEN /\ InReg(args[i])
                             /\ ArgSlot(args[i]).reg = gpr(IntOrdinal(i) + 3)
                             /\ ArgSlot(args[i]).reg
                                  \in get_intreg_for_arg(call_conv, IntOrdinal(i) + 1)
                        ELSE OnStack(args[i])
        ELSE /\ Len(args) = Len(params)
             /\ Returned.extra_arg = {}
             /\ \A i \in 1..Len(params) :
                    (IsIntClass(params[i]) /\ IntOrdinal(i) = 0) =>
                        InReg(args[i]) /\ ArgSlot(args[i]).reg = gpr(2)

C7_Witness ==
    /\ Done /\ add_ret_area_ptr /\ call_conv = "SystemV"
    /\ Len(params) >= 2
    /\ params[1].value_type = "F64"
    /\ in_int_reg(params[2].value_type)
    /\ InReg(args[2]) /\ ArgSlot(args[2]).reg = gpr(3)
    /\ Returned.extra_arg = {Len(params)}

(***************************************************************************)
(* C8.                                                                     *)
(***************************************************************************)
\* The register class through whose counter a parameter is placed.
ClassOf(p) ==
    IF in_int_reg(p.value_type) THEN "gpr"
    ELSE IF in_flt_reg(p.value_type) THEN "fpr"
    ELSE IF in_vec_reg(p.value_type) THEN "vr"
    ELSE IF args_or_rets = "Args" THEN "gpr"
    ELSE "none"

\* The register a class offers at a slot index.
RegAt(class, idx) ==
    CASE class = "gpr" -> IF args_or_rets = "Args"
                          THEN get_intreg_for_arg(call_conv, idx)
                          ELSE get_intreg_for_ret(call_conv, idx)
      [] class = "fpr" -> IF args_or_rets = "Args"
                          THEN get_fltreg_for_arg(idx)
                          ELSE get_fltreg_for_ret(idx)
      [] class = "vr" -> IF args_or_rets = "Args"
                         THEN get_vecreg_for_arg(idx)
                         ELSE get_vecreg_for_ret(idx)
      [] OTHER -> {}

\* The placed parameters of a class that received a register, among the
\* first n parameters.
RegistersTaken(class, n) ==
    Cardinality({j \in 1..n : ClassOf(params[j]) = class /\ InReg(args[j])})
    + (IF class = "gpr" /\ add_ret_area_ptr THEN 1 ELSE 0)

\* C8: the register given to a parameter is the one its own class offers at
\* the number of registers that class handed out before it (for the integer
\* class the return-area pointer and the by-reference pointers count), a
\* parameter is on the stack only when its class offers nothing at that
\* number, and each counter equals the number of registers its class handed
\* out: parameters of other classes and spilled parameters advance nothing.
\* Calls that panicked are left out, they return no locations.
C8_IndependentCounters ==
    (pc \notin {"entry", "panic"}) =>
        /\ \A i \in 1..NumPlaced :
              LET offered == RegAt(ClassOf(params[i]),
                                   RegistersTaken(ClassOf(params[i]), i - 1))
              IN  IF InReg(args[i])
                  THEN offered = {ArgSlot(args[i]).reg}
                  ELSE offered = {}
        /\ next_gpr = RegistersTaken("gpr", NumPlaced)
        /\ next_fpr = RegistersTaken("fpr", NumPlaced)
        /\ next_vr = RegistersTaken("vr", NumPlaced)

\* After the integer registers are used up, a spilled integer is followed
\* by a float that still gets the first float register.
C8_Witness ==
    /\ pc = "loop" /\ args_or_rets = "Args" /\ NumPlaced >= 3
    /\ \E i \in 2..(NumPlaced - 1) :
          /\ ClassOf(params[i - 1]) = "gpr" /\ InReg(args[i - 1])
          /\ ClassOf(params[i]) = "gpr" /\ OnStack(args[i])
          /\ ClassOf(params[i + 1]) = "fpr" /\ InReg(args[i + 1])
          /\ ArgSlot(args[i + 1]).reg = vr(0)
    /\ next_fpr = 1

(***************************************************************************)
(* C9.                                                                     *)
(***************************************************************************)
\* The size of the area without the tail-call correction: the stack slots
\* and the buffers of the by-reference arguments.
UncorrectedSize == StackSlotBytes + BufferBytes

\* C9 as stated: under the tail-call convention the returned stack size is
\* the uncorrected size when that is 0, and the uncorrected size plus
\* REG_SAVE_AREA_SIZE otherwise.
C9_Original ==
    (Done /\ call_conv = "Tail") =>
        Returned.stack = IF UncorrectedSize = 0 THEN 0
                         ELSE UncorrectedSize + 160

\* C9 amended: under the tail-call convention, when assigning arguments the
\* returned stack size is the uncorrected size when that is 0 and the
\* uncorrected size plus REG_SAVE_AREA_SIZE (160), added once, otherwise;
\* when assigning return values it is the uncorrected size.
C9_TailAddend ==
    (Done /\ call_conv = "Tail") =>
        Returned.stack = IF args_or_rets = "Args" /\ UncorrectedSize # 0
                         THEN UncorrectedSize + 160
                         ELSE UncorrectedSize

C9_Witness ==
    /\ Done /\ call_conv = "Tail" /\ args_or_rets = "Args"
    /\ Len(StackSlots) = 2 /\ BufferBytes = 0
    /\ Returned.stack = 16 + 160

(***************************************************************************)
(* C10.                                                                    *)
(***************************************************************************)
HasStructArgument ==
    \E i \in 1..Len(params) : params[i].purpose = "StructArgument"

\* C10: a StructArgument parameter makes compute_arg_locs return a
\* recoverable unsupported-feature error (not a panic), produced before any
\* location is appended to the accumulator.
C10_StructArgumentIsError ==
    HasStructArgument => (pc = "err" /\ args = <<>>)

(***************************************************************************)
(* C11.                                                                    *)
(***************************************************************************)
\* The number of earlier parameters placed through the same class.
ClassOrdinal(i) ==
    Cardinality({j \in 1..(i - 1) : ClassOf(params[j]) = ClassOf(params[i])})

\* The i-th value cannot be given a register of its class: the class is
\* exhausted by the earlier values, or the value fits no class.
NoRegFor(i) == RegAt(ClassOf(params[i]), ClassOrdinal(i)) = {}

\* C11: when return values are assigned (no struct argument among them),
\* the call never panics; with enable_multi_ret_implicit_sret off it ends
\* in Err(Unsupported) exactly when some value cannot be given a return
\* register of its class, that value being the last one consumed and
\* receiving no location and no stack space; with the flag on the call never
\* ends in Err and every such value is an ordinary stack slot.
C11_RetsUnsupported ==
    (args_or_rets = "Rets" /\ call_conv # "Winch" /\ ~HasStructArgument) =>
        /\ pc # "panic"
        /\ IF multi_ret
           THEN /\ pc # "err"
                /\ Len(args) = Len(params)
                /\ \A i \in 1..Len(params) :
                       NoRegFor(i) =>
                           args[i].kind = "Slots" /\ OnStack(args[i])
           ELSE /\ (pc = "err") <=> (\E i \in 1..Len(params) : NoRegFor(i))
                /\ pc = "err" =>
                       /\ NoRegFor(Len(params))
                       /\ Len(args) = Len(params) - 1
                /\ pc # "err" => Len(args) = Len(params)
                /\ \A i \in 1..Len(args) : InReg(args[i])
                /\ next_stack = 0
                /\ pc = "done" => Returned.stack = 0

\* The fifth I64 return value under SystemV with the flag off.
C11_Witness ==
    /\ pc = "err" /\ args_or_rets = "Rets" /\ ~multi_ret
    /\ call_conv = "SystemV" /\ AllI64(5) /\ Len(args) = 4

(***************************************************************************)
(* C12.                                                                    *)
(***************************************************************************)
\* C12: a call of compute_arg_locs with the 'winch' convention ends in a
\* recoverable unsupported-feature error value, never in a panic.
C12_WinchIsError ==
    (call_conv = "Winch" /\ pc # "entry") => pc = "err"

(***************************************************************************)
(* C13.                                                                    *)
(***************************************************************************)
\* The value fits no register class.
FitsNoClass(p) ==
    /\ ~in_int_reg(p.value_type)
    /\ ~in_flt_reg(p.value_type)
    /\ ~in_vec_reg(p.value_type)

\* The integer registers handed to integer-typed values among the placed
\* parameters.
IntRegsOfIntValues ==
    Cardinality({j \in 1..NumPlaced :
                    in_int_reg(params[j].value_type) /\ InReg(args[j])})

\* The location of a by-reference argument: an ImplicitPtrArg for the
\* original type whose pointer is an I64 in the integer argument register
\* of the given index, or else in an 8-byte stack slot.
PointerPlacedAsInteger(a, ty, idx) ==
    /\ a.kind = "ImplicitPtrArg"
    /\ a.ty = ty
    /\ a.pointer.ty = "I64"
    /\ IF get_intreg_for_arg(call_conv, idx) # {}
       THEN /\ a.pointer.kind = "Reg"
            /\ a.pointer.reg \in get_intreg_for_arg(call_conv, idx)
       ELSE /\ a.pointer.kind = "Stack"
            /\ a.pointer.offset % 8 = 0
            /\ SlotBytes(a.pointer) = 8

\* C13 as stated: every consumed value that fits no register class has a
\* location; as a return value an ordinary stack slot, with the integer
\* counter counting integer values only; as an argument an ImplicitPtrArg
\* whose I64 pointer is placed like an integer argument, counted by the
\* integer counter when in a register.
C13_Original ==
    \A i \in 1..Len(params) :
        (FitsNoClass(params[i]) /\ params[i].purpose = "Normal") =>
            /\ i <= Len(args)
            /\ IF args_or_rets = "Rets"
               THEN /\ args[i].kind = "Slots" /\ OnStack(args[i])
                    /\ next_gpr = IntRegsOfIntValues
               ELSE /\ PointerPlacedAsInteger(args[i], params[i].value_type,
                                              RegistersTaken("gpr", i - 1))
                    /\ next_gpr = RegistersTaken("gpr", NumPlaced)

\* C13 amended: a consumed value that fits no register class has a location
\* unless it ended the call: a return value ends it in Err(Unsupported) when
\* enable_multi_ret_implicit_sret is off, an argument ends it in a panic
\* when its byte size is not a multiple of 8.  When it has a location, that
\* is, as a return value, an ordinary stack slot holding the value, with the
\* integer counter counting integer values only; as an argument, an
\* ImplicitPtrArg whose I64 pointer is placed like an integer argument,
\* counted by the integer counter when in a register (the counter is read
\* in calls that did not panic).
C13_NoClassByDirection ==
    \A i \in 1..Len(params) :
        (FitsNoClass(params[i]) /\ params[i].purpose = "Normal") =>
            IF args_or_rets = "Rets"
            THEN IF multi_ret
                 THEN /\ i <= Len(args)
                      /\ args[i].kind = "Slots" /\ OnStack(args[i])
                      /\ ArgSlot(args[i]).ty = params[i].value_type
                      /\ next_gpr = IntRegsOfIntValues
                 ELSE pc = "err" /\ i = Len(params) /\ Len(args) = i - 1
            ELSE IF (ty_bits(params[i].value_type) \div 8) % 8 = 0
                 THEN /\ i <= Len(args)
                      /\ PointerPlacedAsInteger(args[i], params[i].value_type,
                                                RegistersTaken("gpr", i - 1))
                      /\ pc # "panic" =>
                             next_gpr = RegistersTaken("gpr", NumPlaced)
                 ELSE pc = "panic" /\ i = Len(params) /\ Len(args) = i - 1

\* A 16-byte argument passed by reference in r2, followed by a second one.
C13_Witness ==
    /\ pc = "done" /\ args_or_rets = "Args" /\ ~add_ret_area_ptr
    /\ Len(params) = 2
    /\ params[1].value_type = "I128" /\ params[2].value_type = "I128"
    /\ args[1].kind = "ImplicitPtrArg" /\ args[1].pointer.kind = "Reg"
    /\ args[1].pointer.reg = gpr(2)
    /\ args[2].pointer.reg = gpr(3)
    /\ next_gpr = 2

(***************************************************************************)
(* C14.                                                                    *)
(***************************************************************************)
\* The by-reference arguments, in parameter order.
Buffers == SelectSeq(args, LAMBDA a : a.kind = "ImplicitPtrArg")

BufferSize(a) == ty_bits(a.ty) \div 8

\* The first byte past the stack slots.
StackSlotsEnd ==
    LET ends == {StackSlots[k].offset - Padding(StackSlots[k])
                   + SlotBytes(StackSlots[k]) : k \in 1..Len(StackSlots)}
    IN  IF ends = {} THEN 0 ELSE CHOOSE e \in ends : \A f \in ends : f <= e

\* The byte ranges [lo, hi) do not overlap.
Disjoint(lo1, hi1, lo2, hi2) == hi1 <= lo2 \/ hi2 <= lo1

\* The returned size without the tail-call addend.
SizeBeforeAddend ==
    IF call_conv = "Tail" /\ args_or_rets = "Args" /\ Returned.stack # 0
    THEN Returned.stack - REG_SAVE_AREA_SIZE
    ELSE Returned.stack

\* C14: in a returned result the first buffer starts at the end of the
\* stack slots rounded up to a multiple of 8, each later buffer starts
\* where the previous one ends, no buffer overlaps a stack slot or another
\* buffer, and the size before the tail-call addend is the end of the last
\* buffer (the rounded end of the stack slots without buffers), a multiple
\* of 8.
C14_BuffersContiguous ==
    Done =>
        LET aligned == align_to(StackSlotsEnd, 8)
            n == Len(Buffers)
        IN  /\ aligned % 8 = 0
            /\ n > 0 => Buffers[1].offset = aligned
            /\ \A k \in 2..n :
                  Buffers[k].offset
                      = Buffers[k - 1].offset + BufferSize(Buffers[k - 1])
            /\ \A k \in 1..n : \A j \in 1..Len(StackSlots) :
                  Disjoint(Buffers[k].offset,
                           Buffers[k].offset + BufferSize(Buffers[k]),
                           StackSlots[j].offset - Padding(StackSlots[j]),
                           StackSlots[j].offset - Padding(StackSlots[j])
                               + SlotBytes(StackSlots[j]))
            /\ \A k \in 1..n : \A j \in 1..n :
                  k # j =>
                      Disjoint(Buffers[k].offset,
                               Buffers[k].offset + BufferSize(Buffers[k]),
                               Buffers[j].offset,
                               Buffers[j].offset + BufferSize(Buffers[j]))
            /\ SizeBeforeAddend
                  = IF n = 0 THEN aligned
                    ELSE Buffers[n].offset + BufferSize(Buffers[n])
            /\ SizeBeforeAddend % 8 = 0

\* Two buffers of different sizes above two stack slots: the pointers of
\* both by-reference arguments are on the stack.
C14_Witness ==
    /\ Done /\ args_or_rets = "Args"
    /\ Len(Buffers) = 2 /\ Len(StackSlots) = 2
    /\ BufferSize(Buffers[1]) = 16 /\ BufferSize(Buffers[2]) = 8
    /\ Buffers[1].offset = 16 /\ Buffers[2].offset = 32
    /\ SizeBeforeAddend = 40

(***************************************************************************)
(* compute_frame_layout.                                                   *)
(***************************************************************************)
\* Number of clobbered registers in the input of compute_frame_layout.
MaxClobbers == 3

\* The order of RealReg: by register class (integer first), then by
\* hardware encoding.
RegIndex(r) == (IF r.class = "Int" THEN 0 ELSE 64) + r.hw_enc

\* The place of r in an ascending list.
RECURSIVE Insert(_, _)
Insert(r, sorted) ==
    IF sorted = <<>> THEN <<r>>
    ELSE IF RegIndex(r) <= RegIndex(Head(sorted)) THEN <<r>> \o sorted
    ELSE <<Head(sorted)>> \o Insert(r, Tail(sorted))

\* slice::sort_unstable on registers.
RECURSIVE sort_unstable(_)
sort_unstable(rs) ==
    IF rs = <<>> THEN <<>> ELSE Insert(Head(rs), sort_unstable(Tail(rs)))

\* slice::contains.
Contains(rs, r) == \E i \in 1..Len(rs) : rs[i] = r

\* A variant in which the tail-call convention saves r6 and r7 too.
is_reg_saved_in_prologue_r6_always(cc, r) ==
    CASE r.class = "Int" -> r.hw_enc >= 6 /\ r.hw_enc <= 15
      [] r.class = "Float" -> r.hw_enc >= 8 /\ r.hw_enc <= 15

is_reg_saved_in_prologue(cc, r) ==
    CASE cc = "Tail" /\ r.class = "Int" -> r.hw_enc >= 8 /\ r.hw_enc <= 15
      [] cc # "Tail" /\ r.class = "Int" -> r.hw_enc >= 6 /\ r.hw_enc <= 15
      [] r.class = "Float" -> r.hw_enc >= 8 /\ r.hw_enc <= 15

\* The clobbered registers the prologue saves, in input order.
FilterSaved(cc, rs) ==
    SelectSeq(rs, LAMBDA r : is_reg_saved_in_prologue(cc, r))

\* The outgoing argument area after the frame-pointer adjustment.
RaiseOutgoing(fl, outgoing) ==
    IF fl.preserve_frame_pointers /\ outgoing < REG_SAVE_AREA_SIZE
    THEN REG_SAVE_AREA_SIZE
    ELSE outgoing

\* Variant: the link register is pushed without looking for it in the list.
PushLinkReg_no_contains(rs, outgoing) ==
    IF outgoing > 0 THEN Append(rs, gpr(14)) ELSE rs

\* The link register is saved when there is an outgoing argument area.
PushLinkReg(rs, outgoing) ==
    IF outgoing > 0 /\ ~Contains(rs, gpr(14))
    THEN Append(rs, gpr(14))
    ELSE rs

\* Variant: the list is left in the order of the input.
clobbered_callee_saves_unsorted(cc, rs, outgoing) ==
    PushLinkReg(FilterSaved(cc, rs), outgoing)

\* The list of saved registers of the layout; outgoing is the adjusted size.
clobbered_callee_saves(cc, rs, outgoing) ==
    sort_unstable(PushLinkReg(FilterSaved(cc, rs), outgoing))

\* Variant: every saved register takes a slot of the clobber area.
ClobberSize_counts_int(cc, saves, tail_args) ==
    8 * Len(saves) + (IF cc = "Tail" THEN tail_args ELSE 0)

\* Variant: the tail-call argument size is added under every convention.
ClobberSize_tail_any_conv(cc, saves, tail_args) ==
    8 * Len(SelectSeq(saves, LAMBDA r : r.class = "Float")) + tail_args

\* The size of the clobber area for the saved registers.
ClobberSize(cc, saves, tail_args) ==
    8 * Len(SelectSeq(saves, LAMBDA r : r.class = "Float"))
    + (IF cc = "Tail" THEN tail_args ELSE 0)

\* The FrameLayout returned (the assertion on enable_pinned_reg is in the
\* action below).
compute_frame_layout(cc, fl, rs, incoming, tail_args, slots, fixed, outgoing) ==
    LET out == RaiseOutgoing(fl, outgoing)
        saves == clobbered_callee_saves(cc, rs, out)
    IN  [word_bytes |-> 8,
         incoming_args_size |-> incoming,
         tail_args_size |-> incoming,
         setup_area_size |-> 0,
         clobber_size |-> ClobberSize(cc, saves, tail_args),
         fixed_frame_storage_size |-> fixed,
         stackslots_size |-> slots,
         outgoing_args_size |-> out,
         clobbered_callee_saves |-> saves]

\* The registers the clobber lists are drawn from: integer registers that
\* no convention saves (r5), that only the standard convention saves (r6),
\* that both save (r8, r14), and floating registers that are not saved (v7)
\* and saved (v8, v15).
FrameRegChoices == {gpr(5), gpr(6), gpr(8), gpr(14), vr(7), vr(8), vr(15)}

\* The duplicate-free lists of at most MaxClobbers registers.
ClobberLists ==
    {rs \in UNION {[1..n -> FrameRegChoices] : n \in 0..MaxClobbers} :
        \A i, j \in DOMAIN rs : i # j => rs[i] # rs[j]}

\* A call of compute_frame_layout with some inputs.  The tail-call argument
\* area is at least as large as the incoming argument area.
InitFrame ==
    /\ call_conv \in CallConvs
    /\ flags \in [enable_pinned_reg : BOOLEAN,
                  preserve_frame_pointers : BOOLEAN]
    /\ regs \in ClobberLists
    /\ incoming_args_size \in {0, 168}
    /\ tail_args_size \in {incoming_args_size, 176}
    /\ \E storage \in {<<0, 0>>, <<16, 8>>} :
          /\ stackslots_size = storage[1]
          /\ fixed_frame_storage_size = storage[2]
    /\ outgoing_args_size \in {0, 8, 168}
    /\ frame_layout = {}
    /\ pc = "entry"
    /\ ArgLocsIdle
    /\ RegistryIdle
    /\ EmitIdle

\* The whole function: the assertion, then the layout.
ComputeFrameLayout ==
    /\ pc = "entry"
    /\ IF flags.enable_pinned_reg
       THEN /\ pc' = "panic"
            /\ frame_layout' = frame_layout
       ELSE /\ pc' = "done"
            /\ frame_layout' =
                  {compute_frame_layout(call_conv, flags, regs,
                                        incoming_args_size, tail_args_size,
                                        stackslots_size,
                                        fixed_frame_storage_size,
                                        outgoing_args_size)}
    /\ UNCHANGED <<call_conv, flags, regs, incoming_args_size, tail_args_size,
                   stackslots_size, fixed_frame_storage_size,
                   outgoing_args_size>>
    /\ UNCHANGED arg_locs_vars
    /\ UNCHANGED registry_vars
    /\ UNCHANGED emit_vars

NextFrame == ComputeFrameLayout

SpecFrame == InitFrame /\ [][NextFrame]_vars

\* The FrameLayout returned.
Layout == CHOOSE l \in frame_layout : TRUE

\* The floating registers of a list.
Floats(rs) == SelectSeq(rs, LAMBDA r : r.class = "Float")

\* The integer registers of a list.
Ints(rs) == SelectSeq(rs, LAMBDA r : r.class = "Int")

(***************************************************************************)
(* C15.                                                                    *)
(***************************************************************************)
\* The callee-saved registers of a class among the clobbered registers.
SavedInput(class) ==
    {i \in 1..Len(regs) :
        regs[i].class = class /\ is_reg_saved_in_prologue(call_conv, regs[i])}

\* The function clobbers exactly two integer callee-saved registers and no
\* floating register.
TwoIntsNoFloat ==
    /\ Cardinality(SavedInput("Int")) = 2
    /\ Floats(regs) = <<>>

\* C15 as stated: clobber_size is 8 bytes for each floating callee-saved
\* register clobbered and nothing else, so it is 0 for two integer
\* callee-saved registers and no floating register, under every convention
\* and for every value of the other inputs.
C15_Original ==
    frame_layout # {} =>
        /\ Layout.clobber_size = 8 * Cardinality(SavedInput("Float"))
        /\ TwoIntsNoFloat => Layout.clobber_size = 0

\* C15 amended: under a convention other than Tail clobber_size is 8 bytes
\* for each floating callee-saved register clobbered and nothing else, so it
\* is 0 for two integer callee-saved registers and no floating register;
\* under Tail the input tail_args_size is added to it, the saved integer
\* registers (the link register included) still adding nothing.
C15_ClobberSizeFloatsOnly ==
    frame_layout # {} =>
        LET tail_part == IF call_conv = "Tail" THEN tail_args_size ELSE 0
        IN  /\ Layout.clobber_size
                  = 8 * Cardinality(SavedInput("Float")) + tail_part
            /\ TwoIntsNoFloat => Layout.clobber_size = tail_part

\* Two integer callee-saved registers under the standard convention, the
\* link register saved as a third.
C15_Witness ==
    /\ frame_layout # {} /\ call_conv = "SystemV" /\ TwoIntsNoFloat
    /\ Len(Layout.clobbered_callee_saves) = 3
    /\ tail_args_size = 176
    /\ Layout.clobber_size = 0

(***************************************************************************)
(* C16.                                                                    *)
(***************************************************************************)
\* The lists that hold the registers of rs in another order.
Reorderings(rs) ==
    {[i \in 1..Len(rs) |-> rs[f[i]]] : f \in Permutations(1..Len(rs))}

\* Integer registers come before floating registers, and the encodings
\* ascend within a class.
Ascending(rs) ==
    \A i, j \in 1..Len(rs) :
        i < j =>
            \/ rs[i].class = "Int" /\ rs[j].class = "Float"
            \/ rs[i].class = rs[j].class /\ rs[i].hw_enc < rs[j].hw_enc

\* C16: the layout returned for a duplicate-free clobber list is the layout
\* returned for every reordering of that list with the other inputs equal
\* (the same clobbered_callee_saves and the same size fields), and its
\* clobbered_callee_saves is ascending: integer registers first, ascending
\* encodings within a class.
C16_OrderInsensitive ==
    frame_layout # {} =>
        /\ \A rs \in Reorderings(regs) :
              compute_frame_layout(call_conv, flags, rs, incoming_args_size,
                                   tail_args_size, stackslots_size,
                                   fixed_frame_storage_size,
                                   outgoing_args_size) = Layout
        /\ Ascending(Layout.clobbered_callee_saves)

\* A floating register given before two descending integer registers, and
\* the link register added by the outgoing area.
C16_Witness ==
    /\ frame_layout # {} /\ call_conv = "SystemV"
    /\ regs = <<vr(8), gpr(8), gpr(6)>>
    /\ Layout.clobbered_callee_saves = <<gpr(6), gpr(8), gpr(14), vr(8)>>

(***************************************************************************)
(* C17.                                                                    *)
(***************************************************************************)
\* How often the link register r14 is in the list of saved registers.
LinkRegCount ==
    Cardinality({i \in 1..Len(Layout.clobbered_callee_saves) :
                    Layout.clobbered_callee_saves[i] = gpr(14)})

\* C17: when the outgoing_args_size of the layout is non-zero, r14 is in
\* clobbered_callee_saves exactly once, whether or not r14 is among the
\* clobbered registers; with preserve_frame_pointers the outgoing_args_size
\* of the layout is the larger of the input and 160, so r14 is in the list
\* even when the input outgoing_args_size is 0.
C17_LinkRegister ==
    frame_layout # {} =>
        /\ Layout.outgoing_args_size > 0 => LinkRegCount = 1
        /\ flags.preserve_frame_pointers =>
              /\ Layout.outgoing_args_size >= 160
              /\ Layout.outgoing_args_size = Max(outgoing_args_size, 160)
              /\ LinkRegCount = 1
        /\ ~flags.preserve_frame_pointers =>
              Layout.outgoing_args_size = outgoing_args_size

\* A leaf function whose body wrote r14, with frame pointers preserved.
C17_Witness ==
    /\ frame_layout # {} /\ flags.preserve_frame_pointers
    /\ outgoing_args_size = 0
    /\ Contains(regs, gpr(14)) /\ Len(regs) = 2
    /\ Layout.outgoing_args_size = 160
    /\ LinkRegCount = 1

(***************************************************************************)
(* C18.                                                                    *)
(***************************************************************************)
\* The bytes the saved floating registers of the layout take.
SavedFloatBytes == 8 * Len(Floats(Layout.clobbered_callee_saves))

\* C18: under Tail clobber_size is 8 bytes for each saved floating register
\* of the layout plus the input tail_args_size; under every other
\* convention it is 8 bytes for each saved floating register; the
\* tail_args_size of the layout is the input incoming_args_size, and the
\* other sizes are handed through.
C18_TailArgsInClobberSize ==
    frame_layout # {} =>
        /\ Layout.clobber_size
              = IF call_conv = "Tail"
                THEN SavedFloatBytes + tail_args_size
                ELSE SavedFloatBytes
        /\ Layout.tail_args_size = incoming_args_size
        /\ Layout.incoming_args_size = incoming_args_size
        /\ Layout.stackslots_size = stackslots_size
        /\ Layout.fixed_frame_storage_size = fixed_frame_storage_size

\* Under Tail, one saved floating register and a tail-call argument area
\* larger than the incoming one.
C18_Witness ==
    /\ frame_layout # {} /\ call_conv = "Tail"
    /\ incoming_args_size = 168 /\ tail_args_size = 176
    /\ Len(Floats(Layout.clobbered_callee_saves)) = 1
    /\ Layout.clobber_size = 184
    /\ Layout.tail_args_size = 168

(***************************************************************************)
(* The registry: machine environments and clobber sets.                    *)
(***************************************************************************)
\* The general registers and the vector registers lo..hi, ascending.
GprList(lo, hi) == [i \in 1..(hi - lo + 1) |-> gpr(lo + i - 1)]

VrList(lo, hi) == [i \in 1..(hi - lo + 1) |-> vr(lo + i - 1)]

sysv_create_machine_env ==
    [preferred_regs_by_class |->
        <<GprList(2, 5), VrList(0, 7) \o VrList(16, 31), <<>>>>,
     non_preferred_regs_by_class |->
        <<GprList(6, 14), VrList(8, 15), <<>>>>,
     fixed_stack_slots |-> <<>>,
     scratch_by_class |-> <<{}, {}, {}>>]

tail_create_machine_env ==
    [preferred_regs_by_class |->
        <<GprList(2, 7), VrList(0, 7) \o VrList(16, 31), <<>>>>,
     non_preferred_regs_by_class |->
        <<GprList(8, 14), VrList(8, 15), <<>>>>,
     fixed_stack_slots |-> <<>>,
     scratch_by_class |-> <<{}, {}, {}>>]

sysv_clobbers == {gpr(n) : n \in 0..5} \cup {vr(n) : n \in 0..31}

tail_clobbers == {gpr(n) : n \in 0..7} \cup {vr(n) : n \in 0..31}

all_clobbers == {gpr(n) : n \in 0..15} \cup {vr(n) : n \in 0..31}

\* Variant: the exception flag is not looked at.
get_regs_clobbered_by_call_no_exception(call_conv_of_callee, is_exception) ==
    IF call_conv_of_callee = "Tail" THEN tail_clobbers ELSE sysv_clobbers

get_regs_clobbered_by_call(call_conv_of_callee, is_exception) ==
    CASE call_conv_of_callee = "Tail" /\ is_exception -> all_clobbers
      [] call_conv_of_callee = "Tail" /\ ~is_exception -> tail_clobbers
      [] OTHER -> sysv_clobbers

\* Variant: one static serves every convention.
MachineEnvCell_shared(cc) == "SYSV_MACHINE_ENV"

\* The static a call of get_machine_env uses.
MachineEnvCell(cc) ==
    IF cc = "Tail" THEN "TAIL_MACHINE_ENV" ELSE "SYSV_MACHINE_ENV"

\* The closure a call of get_machine_env passes to get_or_init.
MachineEnvInit(cc) ==
    IF cc = "Tail" THEN tail_create_machine_env ELSE sysv_create_machine_env

\* The registry is untouched and some thread may call.
InitRegistry ==
    /\ RegistryIdle
    /\ call_conv = "SystemV"
    /\ pc = "entry"
    /\ ArgLocsIdle
    /\ FrameIdle
    /\ EmitIdle

\* Thread t calls get_machine_env(flags, cc).
GetMachineEnv(t, cc) ==
    /\ thread_pc[t] = "idle"
    /\ thread_cc' = [thread_cc EXCEPT ![t] = cc]
    /\ thread_pc' = [thread_pc EXCEPT ![t] = "get_or_init"]
    /\ UNCHANGED <<machine_env_cells, thread_env, constructed, installed,
                   returned, clobbers>>
    /\ UNCHANGED lowering_vars

\* OnceLock::get_or_init, first step: the cell is read; a value that is
\* there is returned, otherwise the thread goes on to initialize the cell.
GetOrInit(t) ==
    /\ thread_pc[t] = "get_or_init"
    /\ LET cell == machine_env_cells[MachineEnvCell(thread_cc[t])]
       IN  IF cell.state = "complete"
           THEN /\ returned' = [returned EXCEPT
                                  ![thread_cc[t]] = @ \cup cell.value]
                /\ thread_pc' = [thread_pc EXCEPT ![t] = "idle"]
           ELSE /\ returned' = returned
                /\ thread_pc' = [thread_pc EXCEPT ![t] = "call_once"]
    /\ UNCHANGED <<machine_env_cells, thread_cc, thread_env, constructed,
                   installed, clobbers>>
    /\ UNCHANGED lowering_vars

\* Once::call_once_force: an incomplete cell is claimed by this thread, a
\* complete one is left alone; while another thread runs the closure this
\* thread waits.
CallOnce(t) ==
    /\ thread_pc[t] = "call_once"
    /\ LET c == MachineEnvCell(thread_cc[t])
       IN  /\ machine_env_cells[c].state # "running"
           /\ IF machine_env_cells[c].state = "incomplete"
              THEN /\ machine_env_cells' =
                         [machine_env_cells EXCEPT ![c].state = "running"]
                   /\ thread_pc' = [thread_pc EXCEPT ![t] = "closure"]
              ELSE /\ machine_env_cells' = machine_env_cells
                   /\ thread_pc' = [thread_pc EXCEPT ![t] = "unwrap"]
    /\ UNCHANGED <<thread_cc, thread_env, constructed, installed, returned,
                   clobbers>>
    /\ UNCHANGED lowering_vars

\* The closure runs: tail_create_machine_env or sysv_create_machine_env.
RunClosure(t) ==
    /\ thread_pc[t] = "closure"
    /\ thread_env' = [thread_env EXCEPT ![t] = {MachineEnvInit(thread_cc[t])}]
    /\ constructed' = [constructed EXCEPT
                          ![MachineEnvCell(thread_cc[t])] = @ + 1]
    /\ thread_pc' = [thread_pc EXCEPT ![t] = "store"]
    /\ UNCHANGED <<machine_env_cells, thread_cc, installed, returned,
                   clobbers>>
    /\ UNCHANGED lowering_vars

\* The value is stored into the cell and the cell becomes complete.
Store(t) ==
    /\ thread_pc[t] = "store"
    /\ LET c == MachineEnvCell(thread_cc[t])
       IN  /\ machine_env_cells' =
                 [machine_env_cells EXCEPT
                     ![c] = [state |-> "complete", value |-> thread_env[t]]]
           /\ installed' = [installed EXCEPT
                               ![c] = Append(@, CHOOSE e \in thread_env[t] : TRUE)]
    /\ thread_env' = [thread_env EXCEPT ![t] = {}]
    /\ thread_pc' = [thread_pc EXCEPT ![t] = "unwrap"]
    /\ UNCHANGED <<thread_cc, constructed, returned, clobbers>>
    /\ UNCHANGED lowering_vars

\* get_or_init returns the reference to the value of the cell.
Unwrap(t) ==
    /\ thread_pc[t] = "unwrap"
    /\ returned' = [returned EXCEPT
                       ![thread_cc[t]] =
                           @ \cup machine_env_cells[MachineEnvCell(thread_cc[t])].value]
    /\ thread_pc' = [thread_pc EXCEPT ![t] = "idle"]
    /\ UNCHANGED <<machine_env_cells, thread_cc, thread_env, constructed,
                   installed, clobbers>>
    /\ UNCHANGED lowering_vars

\* Thread t calls get_regs_clobbered_by_call.
GetRegsClobberedByCall(t, call_conv_of_callee, is_exception) ==
    /\ thread_pc[t] = "idle"
    /\ clobbers' = {[call_conv_of_callee |-> call_conv_of_callee,
                     is_exception |-> is_exception,
                     regs |-> get_regs_clobbered_by_call(call_conv_of_callee,
                                                         is_exception)]}
    /\ UNCHANGED <<machine_env_cells, thread_pc, thread_cc, thread_env,
                   constructed, installed, returned>>
    /\ UNCHANGED lowering_vars

NextRegistry ==
    \E t \in Threads :
        \/ \E cc \in CallConvs : GetMachineEnv(t, cc)
        \/ GetOrInit(t)
        \/ CallOnce(t)
        \/ RunClosure(t)
        \/ Store(t)
        \/ Unwrap(t)
        \/ \E cc \in CallConvs : \E exc \in BOOLEAN :
              GetRegsClobberedByCall(t, cc, exc)

SpecRegistry == InitRegistry /\ [][NextRegistry]_vars

(***************************************************************************)
(* C19.                                                                    *)
(***************************************************************************)
\* The machine environment of a convention.
EnvOf(cc) ==
    IF cc = "Tail" THEN tail_create_machine_env ELSE sysv_create_machine_env

\* The conventions served by a cell.
ConvsOf(c) ==
    IF c = "TAIL_MACHINE_ENV" THEN {"Tail"} ELSE {"SystemV", "Winch"}

\* C19: under every interleaving, the closure of a cell runs at most once
\* and at most one value is ever stored into the cell; a complete cell
\* holds that value; every call for a convention returned the one value of
\* the cell of that convention, which is the environment of that
\* convention, so that the Tail cell and the standard cell do not influence
\* each other.
C19_InitializedOnce ==
    /\ \A c \in Cells :
          /\ constructed[c] <= 1
          /\ Len(installed[c]) <= 1
          /\ Len(installed[c]) <= constructed[c]
          /\ IF machine_env_cells[c].state = "complete"
             THEN machine_env_cells[c].value = {installed[c][1]}
             ELSE machine_env_cells[c].value = {}
          /\ \A cc \in ConvsOf(c) :
                returned[cc] \subseteq machine_env_cells[c].value
    /\ \A cc \in CallConvs : returned[cc] \subseteq {EnvOf(cc)}

\* The Tail cell is complete and has been returned, and a Winch call waits
\* in call_once while a SystemV call, having run the closure, is about to
\* store into the cell they share.
C19_Witness ==
    /\ machine_env_cells["TAIL_MACHINE_ENV"].state = "complete"
    /\ returned["Tail"] = {tail_create_machine_env}
    /\ machine_env_cells["SYSV_MACHINE_ENV"].state = "running"
    /\ constructed["SYSV_MACHINE_ENV"] = 1
    /\ \E t, u \in Threads :
          /\ thread_cc[t] = "Winch" /\ thread_pc[t] = "call_once"
          /\ thread_cc[u] = "SystemV" /\ thread_pc[u] = "store"

(***************************************************************************)
(* C20.                                                                    *)
(***************************************************************************)
\* The last call of get_regs_clobbered_by_call.
ClobberCall == CHOOSE c \in clobbers : TRUE

\* Every physical register: 16 general registers and 32 vector registers.
EveryRegister == {gpr(n) : n \in 0..15} \cup {vr(n) : n \in 0..31}

\* The ordinary clobber set of a callee convention.
OrdinaryClobbers(cc) == IF cc = "Tail" THEN tail_clobbers ELSE sysv_clobbers

\* C20 as stated: with is_exception the set returned contains every
\* physical register, whatever the callee convention; without it the set
\* returned is the ordinary set of the callee convention.
C20_Original ==
    clobbers # {} =>
        IF ClobberCall.is_exception
        THEN EveryRegister \subseteq ClobberCall.regs
        ELSE ClobberCall.regs = OrdinaryClobbers(ClobberCall.call_conv_of_callee)

\* C20 amended: for a Tail callee with is_exception the set returned
\* contains every physical register (16 general and 32 vector registers);
\* for every other callee convention the set returned with is_exception is
\* the ordinary set of the convention (r0-r5 and the vector registers),
\* which leaves out r6-r15; without is_exception the set returned is the
\* ordinary set of the callee convention.
C20_ExceptionClobbers ==
    clobbers # {} =>
        /\ Cardinality(EveryRegister) = 48
        /\ IF ClobberCall.is_exception /\ ClobberCall.call_conv_of_callee = "Tail"
           THEN ClobberCall.regs = EveryRegister
           ELSE /\ ClobberCall.regs
                     = OrdinaryClobbers(ClobberCall.call_conv_of_callee)
                /\ ClobberCall.call_conv_of_callee # "Tail" =>
                      ClobberCall.regs \cap {gpr(n) : n \in 0..15}
                          = {gpr(n) : n \in 0..5}

\* A Tail callee that may unwind: all 48 registers.
C20_Witness ==
    /\ clobbers # {}
    /\ ClobberCall.is_exception /\ ClobberCall.call_conv_of_callee = "Tail"
    /\ Cardinality(ClobberCall.regs) = 48

(***************************************************************************)
(* gen_retval_loads: the instructions that bring the return values of a    *)
(* call to the places the register allocator chose.                        *)
(***************************************************************************)
\* The largest number of return values of a call.
MaxDefs == 3

\* A register allocation of a value: a physical register or a spill slot.
RealReg(r) == [reg |-> {r}, spillslot |-> {}]

SpillSlot(n) == [reg |-> {}, spillslot |-> {n}]

\* RetLocation::Reg and RetLocation::Stack.
RetLocation_Reg(preg, ty) == [kind |-> "Reg", preg |-> preg, ty |-> ty]

RetLocation_Stack(amode, ty) == [kind |-> "Stack", amode |-> amode, ty |-> ty]

StackAMode(kind, off, stack_args_size) == [kind |-> kind, off |-> off, stack_args_size |-> stack_args_size]

CallRetPair(vreg, location) == [vreg |-> vreg, location |-> location]

\* impl From<StackAMode> for MemArg.
MemArg_from(amode) ==
    CASE amode.kind = "IncomingArg" ->
             [kind |-> "IncomingArgOffset",
              off |-> amode.off - amode.stack_args_size]
      [] amode.kind = "Slot" -> [kind |-> "SlotOffset", off |-> amode.off]
      [] amode.kind = "OutgoingArg" ->
             [kind |-> "OutgoingArgOffset", off |-> amode.off]

\* A variant in which the tail-call convention is big-endian too.
LaneOrder_from_all_big(cc) == "BigEndian"

\* impl From<isa::CallConv> for LaneOrder.
LaneOrder_from(cc) == IF cc = "Tail" THEN "LittleEndian" ELSE "BigEndian"

\* Inst::rc_for_type: the register class of a type.
rc_for_type(ty) == IF ty \in IntTypes THEN "Int" ELSE "Float"

\* Inst::canonical_type_for_rc.
canonical_type_for_rc(class) == IF class = "Int" THEN "I64" ELSE "I8X16"

\* Inst::gen_load and Inst::gen_store.
gen_load(rd, mem, ty) == [op |-> "Load", rd |-> rd, mem |-> mem, ty |-> ty]

gen_store(mem, rd, ty) == [op |-> "Store", rd |-> rd, mem |-> mem, ty |-> ty]

VecEltRev(lanes, rd, rn) == [op |-> "VecEltRev", lane_count |-> lanes, rd |-> rd, rn |-> rn]

\* The closure lane_swap_if_needed: the instructions it pushes.
lane_swap_if_needed(ci, vreg, ty) ==
    IF LaneOrder_from(ci.caller_conv) # LaneOrder_from(ci.callee_conv)
       /\ is_vector(ty) /\ lane_count(ty) >= 2
    THEN <<VecEltRev(lane_count(ty), vreg, vreg)>>
    ELSE <<>>

\* The closure temp_reg.
temp_reg(ty) == IF rc_for_type(ty) = "Int" THEN gpr(0) ELSE vr(1)

\* The register of an allocation that is a physical register.
to_reg(vreg) == CHOOSE r \in vreg.reg : TRUE

to_spillslot(vreg) == vreg.spillslot

\* The debug assertion of the first pass: a value returned in a register
\* is not in the temporary register of its class.
FirstPassAssert(def) ==
    def.location.kind = "Reg" =>
        def.location.preg # temp_reg(def.location.ty)

\* The first pass over one return value: the instructions it pushes.
FirstPassInsts(ci, def) ==
    IF def.location.kind = "Stack" /\ to_spillslot(def.vreg) # {}
    THEN LET ty == def.location.ty
             temp == temp_reg(ty)
             spillslot == CHOOSE n \in to_spillslot(def.vreg) : TRUE
         IN  <<gen_load(temp, MemArg_from(def.location.amode), ty)>>
             \o lane_swap_if_needed(ci, temp, ty)
             \o <<gen_store([kind |-> "SpillOffset", off |-> 8 * spillslot],
                            temp, canonical_type_for_rc(temp.class))>>
    ELSE <<>>

\* A variant of the second pass that does not look at the allocation.
SecondPassInsts_ignores_spillslot(ci, def) ==
    IF def.location.kind = "Reg"
    THEN lane_swap_if_needed(ci, def.location.preg, def.location.ty)
    ELSE LET rd == IF def.vreg.reg = {} THEN temp_reg(def.location.ty)
                   ELSE to_reg(def.vreg)
         IN  <<gen_load(rd, MemArg_from(def.location.amode),
                        def.location.ty)>>
             \o lane_swap_if_needed(ci, rd, def.location.ty)

\* The second pass over one return value: the instructions it pushes.
SecondPassInsts(ci, def) ==
    IF def.location.kind = "Reg"
    THEN lane_swap_if_needed(ci, def.location.preg, def.location.ty)
    ELSE IF to_spillslot(def.vreg) = {}
    THEN <<gen_load(to_reg(def.vreg), MemArg_from(def.location.amode),
                    def.location.ty)>>
         \o lane_swap_if_needed(ci, to_reg(def.vreg), def.location.ty)
    ELSE <<>>

(***************************************************************************)
(* The calls of gen_retval_loads that are explored.  The registers, the    *)
(* stack offsets and the spill slots of a return value depend on its       *)
(* position i (0-based), so that the values of one call are in different   *)
(* places: integer values return in r2.., floating values in v0, v2, ..,   *)
(* vectors in v24.., and the allocator may pick any register for a value   *)
(* returned on the stack, v1 included.                                     *)
(***************************************************************************)
DefKinds == {"RegI64", "RegF64", "RegI32X4", "StackI64", "StackI32X4", "SpillI64", "SpillF64", "SpillI64X2"}

RetStackAMode(i) == StackAMode("OutgoingArg", 160 + 16 * i, 0)

DefOf(kind, i) ==
    CASE kind = "RegI64" ->
             CallRetPair(RealReg(gpr(2 + i)), RetLocation_Reg(gpr(2 + i), "I64"))
      [] kind = "RegF64" ->
             CallRetPair(RealReg(vr(2 * i)), RetLocation_Reg(vr(2 * i), "F64"))
      [] kind = "RegI32X4" ->
             CallRetPair(RealReg(vr(24 + i)), RetLocation_Reg(vr(24 + i), "I32X4"))
      [] kind = "StackI64" ->
             CallRetPair(RealReg(gpr(8 + i)), RetLocation_Stack(RetStackAMode(i), "I64"))
      [] kind = "StackI32X4" ->
             CallRetPair(RealReg(vr(1 + 4 * i)), RetLocation_Stack(RetStackAMode(i), "I32X4"))
      [] kind = "SpillI64" ->
             CallRetPair(SpillSlot(i), RetLocation_Stack(RetStackAMode(i), "I64"))
      [] kind = "SpillF64" ->
             CallRetPair(SpillSlot(i), RetLocation_Stack(RetStackAMode(i), "F64"))
      [] kind = "SpillI64X2" ->
             CallRetPair(SpillSlot(i), RetLocation_Stack(RetStackAMode(i), "I64X2"))

DefLists == UNION {[1..n -> DefKinds] : n \in 0..MaxDefs}

InitRetval ==
    /\ \E caller \in CallConvs, callee \in CallConvs, kinds \in DefLists :
           info = [caller_conv |-> caller, callee_conv |-> callee,
                   defs |-> [i \in 1..Len(kinds) |-> DefOf(kinds[i], i - 1)]]
    /\ insts = <<>>
    /\ pos = 0
    /\ pc = "first_pass"
    /\ call_conv = "SystemV"
    /\ ArgLocsIdle
    /\ FrameIdle
    /\ RegistryIdle
    /\ CodeIdle

\* One iteration of the first loop.
FirstPass ==
    /\ pc = "first_pass"
    /\ pos < Len(info.defs)
    /\ IF FirstPassAssert(info.defs[pos + 1])
       THEN /\ insts' = insts \o FirstPassInsts(info, info.defs[pos + 1])
            /\ pos' = pos + 1
            /\ pc' = pc
       ELSE /\ pc' = "panic"
            /\ UNCHANGED <<insts, pos>>
    /\ UNCHANGED <<call_conv, info, arg_locs_vars, frame_vars, registry_vars, code_vars>>

\* The first loop ends, the second begins.
FirstPassEnd ==
    /\ pc = "first_pass"
    /\ pos = Len(info.defs)
    /\ pc' = "second_pass"
    /\ pos' = 0
    /\ UNCHANGED <<call_conv, insts, info, arg_locs_vars, frame_vars, registry_vars, code_vars>>

\* One iteration of the second loop.
SecondPass ==
    /\ pc = "second_pass"
    /\ pos < Len(info.defs)
    /\ insts' = insts \o SecondPassInsts(info, info.defs[pos + 1])
    /\ pos' = pos + 1
    /\ UNCHANGED <<call_conv, pc, info, arg_locs_vars, frame_vars, registry_vars, code_vars>>

\* The second loop ends and gen_retval_loads returns insts.
RetvalReturn ==
    /\ pc = "second_pass"
    /\ pos = Len(info.defs)
    /\ pc' = "done"
    /\ UNCHANGED <<call_conv, insts, pos, info, arg_locs_vars, frame_vars, registry_vars, code_vars>>

NextRetval == FirstPass \/ FirstPassEnd \/ SecondPass \/ RetvalReturn

SpecRetval == InitRetval /\ [][NextRetval]_vars

(***************************************************************************)
(* Vocabulary of the properties of gen_retval_loads.                       *)
(***************************************************************************)
Defs == info.defs

\* The return values on the stack, by position in info.defs.
StackDefs == {i \in 1..Len(Defs) : Defs[i].location.kind = "Stack"}

\* Those the allocator put in a spill slot, and those it put in a register.
SpilledDefs == {i \in StackDefs : Defs[i].vreg.spillslot # {}}

DirectDefs == StackDefs \ SpilledDefs

\* The values returned in a register.
RegDefs == {i \in 1..Len(Defs) : Defs[i].location.kind = "Reg"}

\* The positions in insts of the loads of return value i.
LoadsOf(i) ==
    {k \in 1..Len(insts) :
        /\ insts[k].op = "Load"
        /\ insts[k].mem = MemArg_from(Defs[i].location.amode)}

LoadOf(i) == CHOOSE k \in LoadsOf(i) : TRUE

IsRev(k) == k \in 1..Len(insts) /\ insts[k].op = "VecEltRev"

\* The position of the store to the spill slot of return value i.
StoresOf(i) ==
    {k \in 1..Len(insts) :
        /\ insts[k].op = "Store"
        /\ insts[k].mem = [kind |-> "SpillOffset",
                           off |-> 8 * (CHOOSE n \in Defs[i].vreg.spillslot : TRUE)]}

\* The positions of the lane reversals of the register-returned value i.
RegRevsOf(i) ==
    {k \in 1..Len(insts) : IsRev(k) /\ insts[k].rd = Defs[i].location.preg}

\* The copy of the spilled value i: a load into the temporary register of
\* its class, at most one reversal of that register, the store of that
\* register to the spill slot.
SpillCopy(i) ==
    LET k == LoadOf(i)
        temp == temp_reg(Defs[i].location.ty)
        s == IF IsRev(k + 1) THEN k + 2 ELSE k + 1
    IN  /\ insts[k].rd = temp
        /\ temp \in {gpr(0), vr(1)}
        /\ IsRev(k + 1) => insts[k + 1].rd = temp /\ insts[k + 1].rn = temp
        /\ StoresOf(i) = {s}
        /\ insts[s].rd = temp

SpillCopyEnd(i) == CHOOSE s \in StoresOf(i) : TRUE

(***************************************************************************)
(* C21.                                                                    *)
(***************************************************************************)
\* C21: in the instructions gen_retval_loads returns, every value returned
\* on the stack is loaded exactly once; the load of a value that lives in a
\* spill slot goes to r0 or v1, is followed by at most a lane reversal and
\* by the store to the spill slot, and all of that precedes every load of a
\* stack value into its own register and every lane reversal of a value
\* returned in a register.
C21_SpillCopiesFirst ==
    pc = "done" /\ Defs # <<>> =>
        /\ \A i \in StackDefs : Cardinality(LoadsOf(i)) = 1
        /\ \A i \in SpilledDefs : SpillCopy(i)
        /\ \A i \in DirectDefs :
               insts[LoadOf(i)].rd = to_reg(Defs[i].vreg)
        /\ \A i \in SpilledDefs :
               /\ \A j \in DirectDefs : SpillCopyEnd(i) < LoadOf(j)
               /\ \A j \in RegDefs : \A k \in RegRevsOf(j) : SpillCopyEnd(i) < k

\* A call returns: a register-returned vector that is reversed, then a
\* stack value that goes to the register v5, then a stack vector that
\* lives in a spill slot and passes through v1.
C21_Witness ==
    /\ pc = "done"
    /\ Len(Defs) = 3
    /\ 1 \in RegDefs /\ RegRevsOf(1) # {}
    /\ 2 \in DirectDefs /\ to_reg(Defs[2].vreg) = vr(5)
    /\ 3 \in SpilledDefs /\ IsRev(LoadOf(3) + 1)
    /\ SpillCopyEnd(3) < LoadOf(2)

(***************************************************************************)
(* C22.                                                                    *)
(***************************************************************************)
\* The lane orders of the two conventions of the call differ.
LaneOrdersDiffer ==
    (info.caller_conv = "Tail") # (info.callee_conv = "Tail")

\* Return value i is reversed: for a register-returned value a reversal of
\* its register is emitted, for a stack value the instruction after its
\* load is a reversal of the loaded register.
Reversed(i) ==
    IF i \in RegDefs THEN RegRevsOf(i) # {}
    ELSE /\ IsRev(LoadOf(i) + 1)
         /\ insts[LoadOf(i) + 1].rd = insts[LoadOf(i)].rd

\* The lane count a reversal of return value i carries.
RevLanes(i) ==
    IF i \in RegDefs THEN {insts[k].lane_count : k \in RegRevsOf(i)}
    ELSE {insts[LoadOf(i) + 1].lane_count}

\* C22: gen_retval_loads reverses the lanes of a return value exactly when
\* one of the caller's and the callee's conventions is Tail and the other
\* is not, and the type of the value is a vector of two lanes or more; the
\* reversal carries the lane count of the type, and no other reversal is
\* emitted.
C22_LaneReversal ==
    pc = "done" =>
        /\ \A i \in 1..Len(Defs) :
               /\ Reversed(i) <=>
                      /\ LaneOrdersDiffer
                      /\ is_vector(Defs[i].location.ty)
                      /\ lane_count(Defs[i].location.ty) >= 2
               /\ Reversed(i) =>
                      RevLanes(i) = {lane_count(Defs[i].location.ty)}
        /\ Cardinality({k \in 1..Len(insts) : IsRev(k)})
               = Cardinality({i \in 1..Len(Defs) : Reversed(i)})

\* A tail-convention caller gets, from a standard-convention callee, a
\* vector in a register, which is reversed, and a scalar, which is not.
C22_Witness ==
    /\ pc = "done"
    /\ info.caller_conv = "Tail" /\ info.callee_conv = "SystemV"
    /\ \E i, j \in 1..Len(Defs) :
           /\ i \in RegDefs /\ Reversed(i)
           /\ ~is_vector(Defs[j].location.ty) /\ ~Reversed(j)

(***************************************************************************)
(* The instructions of prologues, epilogues and stack probes, and the      *)
(* machine they run on.  A register or memory word holds an integer: the   *)
(* stack pointer holds an address, every other register holds at function  *)
(* entry a value that names the register, and the function body leaves in  *)
(* each register it writes another value that names the register.          *)
(***************************************************************************)
\* The stack pointer at function entry.
EntrySP == 16777216

\* The value of general register i, of floating register i, at function
\* entry.
EntryGpr(i) == IF i = 15 THEN EntrySP ELSE 0 - (100 + i)

EntryFpr(i) == 0 - (200 + i)

\* The value the function body leaves in a register it writes.
BodyValue(r) == IF r.class = "Int" THEN 0 - (300 + r.hw_enc) ELSE 0 - (400 + r.hw_enc)

\* The value of a memory word that was never written.
Unknown == 0 - 1

EntryMachine == [gprs |-> [i \in 0..15 |-> EntryGpr(i)], fprs |-> [i \in 0..31 |-> EntryFpr(i)], mem |-> <<>>, trace |-> <<>>]

stack_reg == gpr(15)

zero_reg == gpr(0)

writable_spilltmp_reg == gpr(1)

\* MemArg::reg_plus_off, MemArg::reg, MemArg::BXD12 and MemArg::BXD20.
reg_plus_off(reg, off) == [kind |-> "RegOffset", reg |-> reg, off |-> off]

MemArg_reg(reg) == reg_plus_off(reg, 0)

BXD(kind, base, index, disp) == [kind |-> kind, reg |-> base, index |-> index, off |-> disp]

\* The ranges of the immediate operands.
UImm12_fits(x) == x >= 0 /\ x <= 4095

SImm20_fits(x) == x >= 0 - 524288 /\ x <= 524287

i16_fits(x) == x >= 0 - 32768 /\ x <= 32767

\* The instructions.
Unwind(inst) == [op |-> "Unwind", inst |-> inst]

StoreMultiple64(rt, rt2, mem) == [op |-> "StoreMultiple64", rt |-> rt, rt2 |-> rt2, mem |-> mem]

LoadMultiple64(rt, rt2, mem) == [op |-> "LoadMultiple64", rt |-> rt, rt2 |-> rt2, mem |-> mem]

Mov64(rd, rm) == [op |-> "Mov64", rd |-> rd, rm |-> rm]

LoadAddr(rd, mem) == [op |-> "LoadAddr", rd |-> rd, mem |-> mem]

AluRUImm32(alu_op, rd, ri, imm) == [op |-> "AluRUImm32", alu_op |-> alu_op, rd |-> rd, ri |-> ri, imm |-> imm]

AluRSImm16(alu_op, rd, ri, imm) == [op |-> "AluRSImm16", alu_op |-> alu_op, rd |-> rd, ri |-> ri, imm |-> imm]

AluRSImm32(alu_op, rd, ri, imm) == [op |-> "AluRSImm32", alu_op |-> alu_op, rd |-> rd, ri |-> ri, imm |-> imm]

Store64(rd, mem) == [op |-> "Store64", rd |-> rd, mem |-> mem]

StoreImm8(imm, mem) == [op |-> "StoreImm8", imm |-> imm, mem |-> mem]

VecStoreLane(size, rd, mem, lane_imm) == [op |-> "VecStoreLane", size |-> size, rd |-> rd, mem |-> mem, lane_imm |-> lane_imm]

VecLoadLaneUndef(size, rd, mem, lane_imm) == [op |-> "VecLoadLaneUndef", size |-> size, rd |-> rd, mem |-> mem, lane_imm |-> lane_imm]

Mov32SImm16(rd, imm) == [op |-> "Mov32SImm16", rd |-> rd, imm |-> imm]

Mov32Imm(rd, imm) == [op |-> "Mov32Imm", rd |-> rd, imm |-> imm]

StackProbeLoop(probe_count, guard) == [op |-> "StackProbeLoop", probe_count |-> probe_count, guard_size |-> guard]

\* The address of a memory operand.
Address(m, mem) == m.gprs[mem.reg.hw_enc] + mem.off

\* Memory with the word at address a set to v.
Write(mem, a, v) == [x \in DOMAIN mem \cup {a} |-> IF x = a THEN v ELSE mem[x]]

Read(mem, a) == IF a \in DOMAIN mem THEN mem[a] ELSE Unknown

\* A record of one access to memory by a register.
Access(op, reg, addr) == [op |-> op, reg |-> reg, addr |-> addr]

SetGpr(m, rd, v) == [m EXCEPT !.gprs[rd.hw_enc] = v]

\* STMG: the registers rt..rt2 go to consecutive doublewords.
ExecStoreMultiple(m, i) ==
    LET a == Address(m, i.mem)
        n == i.rt2.hw_enc - i.rt.hw_enc + 1
        words == {a + 8 * k : k \in 0..(n - 1)}
    IN  [m EXCEPT
            !.mem = [x \in DOMAIN m.mem \cup words |->
                        IF x \in words
                        THEN m.gprs[i.rt.hw_enc + (x - a) \div 8]
                        ELSE m.mem[x]],
            !.trace = m.trace \o [k \in 1..n |->
                        Access("store", gpr(i.rt.hw_enc + k - 1), a + 8 * (k - 1))]]

\* LMG: the registers rt..rt2 come from consecutive doublewords; the
\* address is formed before any register is written.
ExecLoadMultiple(m, i) ==
    LET a == Address(m, i.mem)
        n == i.rt2.hw_enc - i.rt.hw_enc + 1
    IN  [m EXCEPT
            !.gprs = [r \in 0..15 |->
                        IF r >= i.rt.hw_enc /\ r <= i.rt2.hw_enc
                        THEN Read(m.mem, a + 8 * (r - i.rt.hw_enc))
                        ELSE m.gprs[r]],
            !.trace = m.trace \o [k \in 1..n |->
                        Access("load", gpr(i.rt.hw_enc + k - 1), a + 8 * (k - 1))]]

\* The loop of a stack probe: probe_count times, lower the stack pointer by
\* guard_size and store a byte there; the count register ends at 0.
ExecStackProbeLoop(m, i) ==
    LET n == m.gprs[i.probe_count.hw_enc]
        sp == m.gprs[15]
        probes == {sp - k * i.guard_size : k \in 1..n}
    IN  [m EXCEPT
            !.gprs = [r \in 0..15 |->
                        IF r = 15 THEN sp - n * i.guard_size
                        ELSE IF r = i.probe_count.hw_enc THEN 0
                        ELSE m.gprs[r]],
            !.mem = [x \in DOMAIN m.mem \cup probes |->
                        IF x \in probes THEN 0 ELSE m.mem[x]],
            !.trace = m.trace \o [k \in 1..n |->
                        Access("probe", stack_reg, sp - k * i.guard_size)]]

\* The effect of one instruction.
Exec(m, i) ==
    CASE i.op = "Unwind" -> m
      [] i.op = "StoreMultiple64" -> ExecStoreMultiple(m, i)
      [] i.op = "LoadMultiple64" -> ExecLoadMultiple(m, i)
      [] i.op = "Mov64" -> SetGpr(m, i.rd, m.gprs[i.rm.hw_enc])
      [] i.op = "LoadAddr" -> SetGpr(m, i.rd, Address(m, i.mem))
      [] i.op \in {"AluRUImm32", "AluRSImm16", "AluRSImm32"} ->
             SetGpr(m, i.rd, m.gprs[i.ri.hw_enc] + i.imm)
      [] i.op \in {"Mov32SImm16", "Mov32Imm"} -> SetGpr(m, i.rd, i.imm)
      [] i.op = "Store64" ->
             [m EXCEPT
                 !.mem = Write(m.mem, Address(m, i.mem), m.gprs[i.rd.hw_enc]),
                 !.trace = Append(m.trace,
                               Access("store", i.rd, Address(m, i.mem)))]
      [] i.op = "StoreImm8" ->
             [m EXCEPT
                 !.mem = Write(m.mem, Address(m, i.mem), i.imm),
                 !.trace = Append(m.trace,
                               Access("probe", i.mem.reg, Address(m, i.mem)))]
      [] i.op = "VecStoreLane" ->
             [m EXCEPT
                 !.mem = Write(m.mem, Address(m, i.mem), m.fprs[i.rd.hw_enc]),
                 !.trace = Append(m.trace,
                               Access("store", i.rd, Address(m, i.mem)))]
      [] i.op = "VecLoadLaneUndef" ->
             [m EXCEPT
                 !.fprs[i.rd.hw_enc] = Read(m.mem, Address(m, i.mem)),
                 !.trace = Append(m.trace,
                               Access("load", i.rd, Address(m, i.mem)))]
      [] i.op = "StackProbeLoop" -> ExecStackProbeLoop(m, i)

\* The effect of a list of instructions.
RECURSIVE Run(_, _)
Run(m, is) == IF is = <<>> THEN m ELSE Run(Exec(m, Head(is)), Tail(is))

(***************************************************************************)
(* gen_add_imm and gen_sp_reg_adjust.                                      *)
(***************************************************************************)
gen_add_imm(cc, into_reg, from_reg, imm) ==
    IF UImm12_fits(imm)
    THEN <<LoadAddr(into_reg, BXD("BXD12", from_reg, zero_reg, imm))>>
    ELSE IF SImm20_fits(imm)
    THEN <<LoadAddr(into_reg, BXD("BXD20", from_reg, zero_reg, imm))>>
    ELSE (IF from_reg # into_reg THEN <<Mov64(into_reg, from_reg)>> ELSE <<>>)
         \o <<AluRUImm32("AddLogical64", into_reg, into_reg, imm)>>

gen_sp_reg_adjust(imm) ==
    IF imm = 0 THEN <<>>
    ELSE IF i16_fits(imm)
    THEN <<AluRSImm16("Add64", stack_reg, stack_reg, imm)>>
    ELSE <<AluRSImm32("Add64", stack_reg, stack_reg, imm)>>

(***************************************************************************)
(* gen_clobber_save, gen_clobber_restore, gen_tail_epilogue.               *)
(***************************************************************************)
\* Option<(first, last)>: the hardware numbers of the first and the last
\* integer register of clobbered_callee_saves.
get_clobbered_gprs(frame) ==
    LET clobbered_gpr == Ints(frame.clobbered_callee_saves)
    IN  IF clobbered_gpr = <<>> THEN {}
        ELSE {<<clobbered_gpr[1].hw_enc,
                clobbered_gpr[Len(clobbered_gpr)].hw_enc>>}

get_clobbered_fprs(frame) == Floats(frame.clobbered_callee_saves)

\* The concatenation of the lists f[1], .., f[n].
RECURSIVE Concat(_, _)
Concat(f, n) == IF n = 0 THEN <<>> ELSE Concat(f, n - 1) \o f[n]

incoming_tail_args_size(cc, frame) ==
    IF cc = "Tail" THEN frame.incoming_args_size ELSE 0

\* gen_clobber_save: the definition of the unwind frame.
DefineFrame(cc, flg, frame) ==
    IF flg.unwind_info
    THEN <<Unwind([kind |-> "DefineNewFrame",
                   offset_upward_to_caller_sp |->
                       REG_SAVE_AREA_SIZE + incoming_tail_args_size(cc, frame),
                   offset_downward_to_clobbers |->
                       frame.clobber_size - incoming_tail_args_size(cc, frame)])>>
    ELSE <<>>

\* gen_clobber_save: the store of the integer registers.
SaveGprs(cc, flg, frame) ==
    IF get_clobbered_gprs(frame) = {} THEN <<>>
    ELSE LET first_clobbered_gpr == (CHOOSE p \in get_clobbered_gprs(frame) : TRUE)[1]
             tail_args == incoming_tail_args_size(cc, frame)
             last_clobbered_gpr == IF tail_args # 0 THEN 14 ELSE 15
             offset == 8 * first_clobbered_gpr + tail_args
         IN  <<StoreMultiple64(gpr(first_clobbered_gpr), gpr(15),
                               reg_plus_off(stack_reg, offset))>>
             \o (IF flg.unwind_info
                 THEN (IF tail_args # 0
                       THEN <<Unwind([kind |-> "RegStackOffset",
                                      clobber_offset |-> frame.clobber_size,
                                      reg |-> gpr(15)])>>
                       ELSE <<>>)
                      \o [k \in 1..(last_clobbered_gpr - first_clobbered_gpr + 1) |->
                            Unwind([kind |-> "SaveReg",
                                    clobber_offset |-> frame.clobber_size
                                        + (first_clobbered_gpr + k - 1) * 8,
                                    reg |-> gpr(first_clobbered_gpr + k - 1)])]
                 ELSE <<>>)

\* A variant that captures the stack pointer itself under every convention.
CaptureBackchain_sp_only(cc, flg, frame) ==
    IF flg.preserve_frame_pointers THEN <<Mov64(gpr(1), stack_reg)>> ELSE <<>>

\* gen_clobber_save: the backchain value goes to r1.
CaptureBackchain(cc, flg, frame) ==
    IF flg.preserve_frame_pointers
    THEN IF incoming_tail_args_size(cc, frame) = 0
         THEN <<Mov64(gpr(1), stack_reg)>>
         ELSE gen_add_imm(cc, gpr(1), stack_reg,
                          incoming_tail_args_size(cc, frame))
    ELSE <<>>

\* gen_clobber_save: the size by which the prologue lowers the stack
\* pointer.
save_stack_size(cc, frame) ==
    frame.outgoing_args_size + frame.clobber_size
    + frame.fixed_frame_storage_size - incoming_tail_args_size(cc, frame)

\* gen_clobber_save: the decrement of the stack pointer.
AllocateStack(cc, flg, frame) ==
    gen_sp_reg_adjust(0 - save_stack_size(cc, frame))
    \o (IF flg.unwind_info
        THEN <<Unwind([kind |-> "StackAlloc",
                       size |-> save_stack_size(cc, frame)])>>
        ELSE <<>>)

\* gen_clobber_save: the backchain goes to the bottom of the frame.
StoreBackchain(flg) ==
    IF flg.preserve_frame_pointers
    THEN <<Store64(gpr(1), reg_plus_off(stack_reg, 0))>>
    ELSE <<>>

\* The offset from the stack pointer of the save slot of the i-th (from 0)
\* floating register.
fpr_offset(frame, i) ==
    i * 8 + frame.outgoing_args_size + frame.fixed_frame_storage_size

\* gen_clobber_save: the stores of the floating registers.
SaveFprs(flg, frame) ==
    LET clobbered_fpr == get_clobbered_fprs(frame)
    IN  Concat([k \in 1..Len(clobbered_fpr) |->
                   <<VecStoreLane(64, clobbered_fpr[k],
                                  reg_plus_off(stack_reg, fpr_offset(frame, k - 1)),
                                  0)>>
                   \o (IF flg.unwind_info
                       THEN <<Unwind([kind |-> "SaveReg",
                                      clobber_offset |-> (k - 1) * 8,
                                      reg |-> clobbered_fpr[k]])>>
                       ELSE <<>>)],
               Len(clobbered_fpr))

gen_clobber_save(cc, flg, frame) ==
    DefineFrame(cc, flg, frame)
    \o SaveGprs(cc, flg, frame)
    \o CaptureBackchain(cc, flg, frame)
    \o AllocateStack(cc, flg, frame)
    \o StoreBackchain(flg)
    \o SaveFprs(flg, frame)

\* A variant that leaves the fixed frame storage out of the offset.
gen_restore_fprs_no_fixed(frame) ==
    LET clobbered_fpr == get_clobbered_fprs(frame)
    IN  [k \in 1..Len(clobbered_fpr) |->
            VecLoadLaneUndef(64, clobbered_fpr[k],
                             reg_plus_off(stack_reg,
                                          (k - 1) * 8 + frame.outgoing_args_size),
                             0)]

gen_restore_fprs(frame) ==
    LET clobbered_fpr == get_clobbered_fprs(frame)
    IN  [k \in 1..Len(clobbered_fpr) |->
            VecLoadLaneUndef(64, clobbered_fpr[k],
                             reg_plus_off(stack_reg, fpr_offset(frame, k - 1)),
                             0)]

\* gen_restore_gprs: the size of the frame the epilogue removes.
restore_stack_size_less_incoming(cc, frame) ==
    frame.outgoing_args_size + frame.clobber_size
    + frame.fixed_frame_storage_size - incoming_tail_args_size(cc, frame)

restore_stack_size(cc, frame) ==
    frame.outgoing_args_size + frame.clobber_size
    + frame.fixed_frame_storage_size

\* A variant that does not look at the range of the displacement.
implicit_sp_restore_any_range(cc, frame, pop) ==
    /\ pop = 0
    /\ (cc # "Tail" \/ frame.incoming_args_size = 0)
    /\ get_clobbered_gprs(frame) # {}

\* gen_restore_gprs: the stack pointer is restored by the load-multiple.
implicit_sp_restore(cc, frame, pop) ==
    /\ pop = 0
    /\ (cc # "Tail" \/ frame.incoming_args_size = 0)
    /\ \E p \in get_clobbered_gprs(frame) :
           SImm20_fits(8 * p[1] + restore_stack_size(cc, frame))

gen_restore_gprs(cc, frame, pop) ==
    LET clobbered_gpr == get_clobbered_gprs(frame)
        stack_size == restore_stack_size(cc, frame)
        implicit == implicit_sp_restore(cc, frame, pop)
    IN  (IF ~implicit THEN gen_sp_reg_adjust(stack_size - pop) ELSE <<>>)
        \o (IF clobbered_gpr = {} THEN <<>>
            ELSE LET p == CHOOSE q \in clobbered_gpr : TRUE
                     first == p[1]
                     last == IF implicit THEN 15 ELSE p[2]
                     offset == pop + 8 * first
                               + (IF implicit THEN stack_size - pop ELSE 0)
                 IN  IF ~SImm20_fits(offset)
                     THEN gen_add_imm(cc, gpr(first), stack_reg, offset)
                          \o <<LoadMultiple64(gpr(first), gpr(last),
                                              reg_plus_off(gpr(first), 0))>>
                     ELSE <<LoadMultiple64(gpr(first), gpr(last),
                                           reg_plus_off(stack_reg, offset))>>)

gen_clobber_restore(cc, flg, frame) ==
    gen_restore_fprs(frame) \o gen_restore_gprs(cc, frame, 0)

\* A variant that moves every indirect target to r1.
tail_temp_dest_any_reg(d) == IF d.kind = "Indirect" THEN {gpr(1)} ELSE {}

\* gen_tail_epilogue: Some(r1) when the target is in a register that the
\* epilogue restores.
tail_temp_dest(d) ==
    IF d.kind = "Indirect" /\ d.reg.reg # {}
       /\ is_reg_saved_in_prologue("Tail", to_reg(d.reg))
    THEN {gpr(1)}
    ELSE {}

\* gen_tail_epilogue: the pair it returns.
gen_tail_epilogue(frame, pop, d) ==
    [insts |-> gen_restore_fprs(frame)
               \o (IF tail_temp_dest(d) # {}
                   THEN <<Mov64(gpr(1), to_reg(d.reg))>>
                   ELSE <<>>)
               \o gen_restore_gprs("Tail", frame, pop),
     temp_dest |-> tail_temp_dest(d)]

(***************************************************************************)
(* A function runs: its prologue is emitted and run, its body writes the   *)
(* registers of the clobber list and leaves the stack pointer where the    *)
(* prologue put it, and one of the two epilogues is emitted and run.       *)
(***************************************************************************)
\* The clobber lists explored, in ascending order (compute_frame_layout
\* sorts its input).
CodeClobberLists == {rs \in ClobberLists : sort_unstable(rs) = rs}

\* The sizes of the incoming and of the tail-call argument area; of the
\* stack slots and of the fixed frame storage.
CodeArgSizes == {<<0, 0>>, <<0, 176>>, <<168, 168>>, <<4104, 4104>>, <<524296, 524296>>}

CodeStorageSizes == {<<0, 0>>, <<524288, 524288>>}

\* The inputs of gen_tail_epilogue.
CalleePopSizes == {0, 168, 524288}

CallInstDests == {[kind |-> "Direct"], [kind |-> "Indirect", reg |-> RealReg(gpr(8))], [kind |-> "Indirect", reg |-> RealReg(gpr(4))]}

InitCode ==
    /\ call_conv \in CallConvs
    /\ flags \in [enable_pinned_reg : {FALSE},
                  preserve_frame_pointers : BOOLEAN,
                  unwind_info : BOOLEAN]
    /\ regs \in CodeClobberLists
    /\ \E sizes \in CodeArgSizes :
          /\ incoming_args_size = sizes[1]
          /\ tail_args_size = sizes[2]
    /\ \E storage \in CodeStorageSizes :
          /\ stackslots_size = storage[1]
          /\ fixed_frame_storage_size = storage[2]
    /\ outgoing_args_size \in {0, 168}
    /\ frame_layout =
          {compute_frame_layout(call_conv, flags, regs, incoming_args_size,
                                tail_args_size, stackslots_size,
                                fixed_frame_storage_size, outgoing_args_size)}
    /\ pc = "prologue"
    /\ insts = <<>>
    /\ pos = 0
    /\ machine = EntryMachine
    /\ frame_size = 0
    /\ guard_size = 0
    /\ callee_pop_size = 0
    /\ dest = [kind |-> "Direct"]
    /\ temp_dest = {}
    /\ RetvalIdle
    /\ ArgLocsIdle
    /\ RegistryIdle

\* What no step of a running function changes.
code_fixed == <<call_conv, frame_vars, arg_locs_vars, registry_vars, retval_vars, pos, frame_size, guard_size>>

\* gen_clobber_save is called.
GenClobberSave ==
    /\ pc = "prologue"
    /\ insts' = gen_clobber_save(call_conv, flags, Layout)
    /\ pc' = "run_prologue"
    /\ UNCHANGED <<code_fixed, machine, callee_pop_size, dest, temp_dest>>

\* The emitted instructions run.
RunInsts ==
    /\ pc \in {"run_prologue", "run_restore", "run_tail", "run_probe"}
    /\ machine' = Run(machine, insts)
    /\ pc' = CASE pc = "run_prologue" -> "body"
               [] pc = "run_restore" -> "returned"
               [] pc = "run_tail" -> "tail_called"
               [] pc = "run_probe" -> "probed"
    /\ UNCHANGED <<code_fixed, insts, callee_pop_size, dest, temp_dest>>

\* The body of the function writes the registers of its clobber list.
Body ==
    /\ pc = "body"
    /\ machine' =
          [machine EXCEPT
              !.gprs = [i \in 0..15 |->
                           IF Contains(regs, gpr(i)) THEN BodyValue(gpr(i))
                           ELSE machine.gprs[i]],
              !.fprs = [i \in 0..31 |->
                           IF Contains(regs, vr(i)) THEN BodyValue(vr(i))
                           ELSE machine.fprs[i]]]
    /\ pc' = "epilogue"
    /\ UNCHANGED <<code_fixed, insts, callee_pop_size, dest, temp_dest>>

\* gen_clobber_restore is called.
GenClobberRestore ==
    /\ pc = "epilogue"
    /\ insts' = gen_clobber_restore(call_conv, flags, Layout)
    /\ pc' = "run_restore"
    /\ UNCHANGED <<code_fixed, machine, callee_pop_size, dest, temp_dest>>

\* gen_tail_epilogue is called, in a function of the tail-call convention.
GenTailEpilogue(pop, d) ==
    /\ pc = "epilogue"
    /\ call_conv = "Tail"
    /\ callee_pop_size' = pop
    /\ dest' = d
    /\ insts' = gen_tail_epilogue(Layout, pop, d).insts
    /\ temp_dest' = gen_tail_epilogue(Layout, pop, d).temp_dest
    /\ pc' = "run_tail"
    /\ UNCHANGED <<code_fixed, machine>>

NextCode ==
    \/ GenClobberSave
    \/ RunInsts
    \/ Body
    \/ GenClobberRestore
    \/ \E pop \in CalleePopSizes, d \in CallInstDests : GenTailEpilogue(pop, d)

SpecCode == InitCode /\ [][NextCode]_vars

(***************************************************************************)
(* Vocabulary of the properties of prologue and epilogue.                  *)
(***************************************************************************)
SP == machine.gprs[15]

\* The incoming tail-call argument size of the running function.
TailArgs == incoming_tail_args_size(call_conv, Layout)

\* The positions in insts of the instructions with a property.
Positions(P(_)) == {k \in 1..Len(insts) : P(insts[k])}

\* The prologue is emitted, and not yet replaced by an epilogue.
PrologueEmitted == pc \in {"run_prologue", "body", "epilogue"}

\* An epilogue is emitted.
EpilogueEmitted == pc \in {"run_restore", "returned", "run_tail", "tail_called"}

\* An instruction writes general register n.
WritesGpr(i, n) ==
    CASE i.op \in {"Mov64", "LoadAddr", "AluRUImm32", "AluRSImm16", "AluRSImm32", "Mov32SImm16", "Mov32Imm"} ->
             i.rd = gpr(n)
      [] i.op = "LoadMultiple64" -> i.rt.hw_enc <= n /\ n <= i.rt2.hw_enc
      [] i.op = "StackProbeLoop" -> n = 15 \/ i.probe_count = gpr(n)
      [] OTHER -> FALSE

IsSpAdjust(i) == i.op \in {"AluRSImm16", "AluRSImm32"} /\ i.rd = stack_reg

(***************************************************************************)
(* C23.                                                                    *)
(***************************************************************************)
IsBackchainStore(i) ==
    i.op = "Store64" /\ i.rd = gpr(1) /\ i.mem = reg_plus_off(stack_reg, 0)

WritesR1(i) == WritesGpr(i, 1)

IsFprSave(i) == i.op = "VecStoreLane"

\* The machine after the first n instructions of the prologue.
AfterPrefix(n) == Run(EntryMachine, SubSeq(insts, 1, n))

\* C23: with preserve_frame_pointers, the prologue writes r1 only before
\* its one decrement of the stack pointer, r1 then holds the entry stack
\* pointer plus the incoming tail-call argument size (0 unless the
\* convention is Tail), the one store of r1 to offset 0 from the stack
\* pointer comes after the decrement and before every save of a floating
\* register, and when the prologue has run the word at the stack pointer
\* holds that value.  Without the flag the prologue neither writes r1 nor
\* stores it.
C23_Backchain ==
    PrologueEmitted =>
        IF flags.preserve_frame_pointers
        THEN /\ Positions(WritesR1) # {}
             /\ Cardinality(Positions(IsSpAdjust)) = 1
             /\ Cardinality(Positions(IsBackchainStore)) = 1
             /\ \A d \in Positions(IsSpAdjust) :
                    /\ \A w \in Positions(WritesR1) : w < d
                    /\ AfterPrefix(d - 1).gprs[1] = EntrySP + TailArgs
                    /\ AfterPrefix(d - 1).gprs[15] = EntrySP
                    /\ AfterPrefix(d).gprs[15] < EntrySP
                    /\ \A b \in Positions(IsBackchainStore) :
                           /\ d < b
                           /\ \A f \in Positions(IsFprSave) : b < f
             /\ pc \in {"body", "epilogue"} =>
                    /\ Read(machine.mem, SP) = EntrySP + TailArgs
                    /\ \A a \in DOMAIN machine.mem : a >= SP
        ELSE /\ Positions(WritesR1) = {}
             /\ Positions(IsBackchainStore) = {}

\* A tail-convention function with incoming stack arguments and a saved
\* floating register has run its prologue with preserve_frame_pointers.
C23_Witness ==
    /\ pc = "body"
    /\ flags.preserve_frame_pointers
    /\ call_conv = "Tail"
    /\ TailArgs = 168
    /\ Positions(IsFprSave) # {}
    /\ Read(machine.mem, SP) = EntrySP + 168

(***************************************************************************)
(* C24.                                                                    *)
(***************************************************************************)
\* The convention the emitted epilogue was generated for.
EpilogueConv == IF pc \in {"run_tail", "tail_called"} THEN "Tail" ELSE call_conv

\* The frame size the epilogue removes.
StackSize ==
    Layout.outgoing_args_size + Layout.clobber_size
    + Layout.fixed_frame_storage_size

SavedInts == Ints(Layout.clobbered_callee_saves)

FirstGpr == SavedInts[1].hw_enc

LastGpr == SavedInts[Len(SavedInts)].hw_enc

\* The four conditions of the implicit restore of the stack pointer.
ImplicitCase ==
    /\ callee_pop_size = 0
    /\ (EpilogueConv # "Tail" \/ Layout.incoming_args_size = 0)
    /\ SavedInts # <<>>
    /\ 8 * FirstGpr + StackSize >= 0 - 524288
    /\ 8 * FirstGpr + StackSize <= 524287

IsLoadMultiple(i) == i.op = "LoadMultiple64"

\* C24: the epilogue restores the stack pointer through its load-multiple
\* (registers first..r15, at displacement 8 * first + stack_size from the
\* stack pointer) and has no increment of the stack pointer exactly when
\* callee_pop_size is 0, the convention is not Tail or incoming_args_size
\* is 0, an integer callee-saved register is clobbered, and the
\* displacement fits 20 signed bits.  In every other case the
\* load-multiple, if any, stops at the last clobbered register, and an
\* increment by stack_size - callee_pop_size precedes it, unless that
\* number is 0, when there is no increment.
C24_ImplicitSpRestore ==
    EpilogueEmitted =>
        IF ImplicitCase
        THEN /\ Positions(IsSpAdjust) = {}
             /\ Cardinality(Positions(IsLoadMultiple)) = 1
             /\ \A l \in Positions(IsLoadMultiple) :
                    /\ insts[l].rt = gpr(FirstGpr)
                    /\ insts[l].rt2 = gpr(15)
                    /\ insts[l].mem
                           = reg_plus_off(stack_reg, 8 * FirstGpr + StackSize)
        ELSE /\ \A l \in Positions(IsLoadMultiple) :
                    /\ insts[l].rt = gpr(FirstGpr)
                    /\ insts[l].rt2 = gpr(LastGpr)
                    /\ LastGpr < 15
             /\ Cardinality(Positions(IsLoadMultiple))
                    = (IF SavedInts = <<>> THEN 0 ELSE 1)
             /\ IF StackSize - callee_pop_size = 0
                THEN Positions(IsSpAdjust) = {}
                ELSE /\ Cardinality(Positions(IsSpAdjust)) = 1
                     /\ \A a \in Positions(IsSpAdjust) :
                            /\ insts[a].imm = StackSize - callee_pop_size
                            /\ \A l \in Positions(IsLoadMultiple) : a < l

\* A standard-convention function with a clobbered integer register and a
\* frame too large for the displacement returns through the explicit
\* increment.
C24_Witness ==
    /\ pc = "returned"
    /\ call_conv = "SystemV"
    /\ SavedInts # <<>>
    /\ 8 * FirstGpr + StackSize > 524287
    /\ Positions(IsSpAdjust) # {}
    /\ SP = EntrySP

(***************************************************************************)
(* C26.                                                                    *)
(***************************************************************************)
SavedFloats == Floats(Layout.clobbered_callee_saves)

\* The target of the tail call is in a physical register that the
\* tail-call convention has the callee save: an integer register r8..r15
\* or a floating register f8..f15.
TargetIsRestored ==
    /\ dest.kind = "Indirect"
    /\ dest.reg.reg # {}
    /\ \E r \in dest.reg.reg : r.hw_enc >= 8 /\ r.hw_enc <= 15

\* The value the register of the target holds when the epilogue begins.
TargetValue ==
    LET r == to_reg(dest.reg)
    IN  IF Contains(regs, r) THEN BodyValue(r) ELSE EntryGpr(r.hw_enc)

IsFprRestore(i) == i.op = "VecLoadLaneUndef"

\* The instructions of the tail epilogue after the restores of the
\* floating registers and the move.
AfterMove ==
    SubSeq(insts, Len(SavedFloats) + (IF TargetIsRestored THEN 2 ELSE 1), Len(insts))

\* C26: the list gen_tail_epilogue returns is the restores of the floating
\* registers of the clobber list, in order; then, only when the target is
\* an indirect destination in a physical register that is callee-saved
\* under Tail, a move of that register to r1; then the restore of the
\* integer registers, which ends in the load-multiple when an integer
\* register is saved, holds no restore of a floating register and no
\* instruction that writes r1.  The second result is Some(r1) when the move
\* is emitted and None when it is not, and when the epilogue has run with
\* the move r1 holds the target.
C26_TailEpilogueOrder ==
    pc \in {"run_tail", "tail_called"} =>
        /\ Len(insts) >= Len(SavedFloats)
        /\ \A k \in 1..Len(SavedFloats) :
               IsFprRestore(insts[k]) /\ insts[k].rd = SavedFloats[k]
        /\ IF TargetIsRestored
           THEN /\ Len(insts) > Len(SavedFloats)
                /\ insts[Len(SavedFloats) + 1] = Mov64(gpr(1), to_reg(dest.reg))
                /\ temp_dest = {gpr(1)}
                /\ pc = "tail_called" => machine.gprs[1] = TargetValue
           ELSE /\ temp_dest = {}
                /\ Positions(WritesR1) = {}
        /\ \A k \in 1..Len(AfterMove) :
               /\ ~IsFprRestore(AfterMove[k])
               /\ ~WritesR1(AfterMove[k])
        /\ SavedInts # <<>> =>
               /\ AfterMove # <<>>
               /\ IsLoadMultiple(AfterMove[Len(AfterMove)])
               /\ AfterMove[Len(AfterMove)].rt = gpr(FirstGpr)
        /\ SavedInts = <<>> => \A k \in 1..Len(AfterMove) : IsSpAdjust(AfterMove[k])

\* A tail call through r8 from a function that wrote r8 and a saved
\* floating register: r8 is back at its entry value, r1 holds the target.
C26_Witness ==
    /\ pc = "tail_called"
    /\ dest = [kind |-> "Indirect", reg |-> RealReg(gpr(8))]
    /\ Contains(regs, gpr(8))
    /\ SavedFloats # <<>>
    /\ temp_dest = {gpr(1)}
    /\ machine.gprs[1] = BodyValue(gpr(8))
    /\ machine.gprs[8] = EntryGpr(8)

(***************************************************************************)
(* C28.                                                                    *)
(***************************************************************************)
EpilogueRan == pc \in {"returned", "tail_called"}

Trace == machine.trace

\* The addresses register r was stored to, and loaded from.
StoredAt(r) ==
    {Trace[k].addr : k \in {j \in 1..Len(Trace) :
                               Trace[j].op = "store" /\ Trace[j].reg = r}}

LoadedFrom(r) ==
    {Trace[k].addr : k \in {j \in 1..Len(Trace) :
                               Trace[j].op = "load" /\ Trace[j].reg = r}}

\* The registers the prologue stored to save them: every register of a
\* store but r1, which holds the backchain.
StoredRegs ==
    {Trace[k].reg : k \in {j \in 1..Len(Trace) :
                              Trace[j].op = "store" /\ Trace[j].reg # gpr(1)}}

LoadedRegs ==
    {Trace[k].reg : k \in {j \in 1..Len(Trace) : Trace[j].op = "load"}}

\* The stack pointer while the body runs.
BodySP == EntrySP - save_stack_size(call_conv, Layout)

\* The contents of a register at function entry.
EntryValue(r) == IF r.class = "Int" THEN EntryGpr(r.hw_enc) ELSE EntryFpr(r.hw_enc)

Value(r) == IF r.class = "Int" THEN machine.gprs[r.hw_enc] ELSE machine.fprs[r.hw_enc]

\* C28 as stated: every register the prologue stored is loaded by the
\* epilogue from the address it was stored to.
C28_Original ==
    EpilogueRan =>
        \A r \in StoredRegs : LoadedFrom(r) = StoredAt(r)

\* C28: every register of clobbered_callee_saves, and every register the
\* epilogue loads, is loaded once, from the one address the prologue stored
\* it to, and so has its entry value again (the stack pointer, when loaded,
\* too); integer register i is stored at entry SP + 8 * i + incoming
\* tail-call argument size, the k-th (from 0) floating register of the list
\* at the body's SP + 8 * k + outgoing_args_size + fixed_frame_storage_size.
\* The registers from the one after the last clobbered integer register to
\* r15 are stored by the prologue too, and loaded only by the epilogue that
\* restores the stack pointer through its load-multiple.
C28_SameAddress ==
    EpilogueRan =>
        /\ \A k \in 1..Len(SavedInts) :
               StoredAt(SavedInts[k])
                   = {EntrySP + 8 * SavedInts[k].hw_enc + TailArgs}
        /\ \A k \in 1..Len(SavedFloats) :
               StoredAt(SavedFloats[k])
                   = {BodySP + 8 * (k - 1) + Layout.outgoing_args_size
                      + Layout.fixed_frame_storage_size}
        /\ \A k \in 1..Len(Layout.clobbered_callee_saves) :
               Layout.clobbered_callee_saves[k] \in LoadedRegs
        /\ \A r \in LoadedRegs :
               /\ LoadedFrom(r) = StoredAt(r)
               /\ Cardinality(LoadedFrom(r)) = 1
               /\ r # gpr(15) => Value(r) = EntryValue(r)
        /\ LoadedRegs \subseteq StoredRegs
        /\ \A r \in StoredRegs \ LoadedRegs :
               /\ r.class = "Int"
               /\ r.hw_enc > LastGpr
               /\ ~ImplicitCase

\* A tail call that pops 524288 bytes, from a function with incoming
\* arguments that saved r8, r14 and f8: the address of the load-multiple
\* is built in r8, and r8, r14 and f8 are loaded from where they were
\* stored; r15 was stored and is not loaded.
C28_Witness ==
    /\ pc = "tail_called"
    /\ callee_pop_size = 524288
    /\ TailArgs = 168
    /\ Positions(LAMBDA i : IsLoadMultiple(i) /\ i.mem = reg_plus_off(gpr(8), 0)) # {}
    /\ {gpr(8), gpr(14), vr(8)} \subseteq LoadedRegs
    /\ gpr(15) \in StoredRegs \ LoadedRegs

(***************************************************************************)
(* C29.                                                                    *)
(***************************************************************************)
\* C29: when gen_clobber_restore's instructions have run after the
\* prologue's, the stack pointer is its entry value plus the incoming
\* tail-call argument size: the entry value unless the convention is Tail,
\* the entry value plus incoming_args_size under Tail.  When
\* gen_tail_epilogue's instructions have run it is that value less
\* callee_pop_size.
C29_StackPointerRestored ==
    /\ pc = "returned" =>
           SP = EntrySP + (IF call_conv = "Tail"
                           THEN Layout.incoming_args_size ELSE 0)
    /\ pc = "tail_called" =>
           SP = EntrySP + Layout.incoming_args_size - callee_pop_size

\* A tail-convention function with 168 bytes of incoming arguments and a
\* clobbered integer register has returned.
C29_Witness ==
    /\ pc = "returned"
    /\ call_conv = "Tail"
    /\ Layout.incoming_args_size = 168
    /\ SavedInts # <<>>
    /\ SP = EntrySP + 168

(***************************************************************************)
(* gen_inline_probestack.                                                  *)
(***************************************************************************)
PROBE_MAX_UNROLL == 2

\* The frame sizes explored are the multiples of FrameUnit up to
\* MaxFrameUnits units, and the sizes one byte below them.
MaxFrameUnits == 50

FrameUnit == 2048

FrameSizes ==
    {k * FrameUnit : k \in 0..MaxFrameUnits}
    \cup {k * FrameUnit - 1 : k \in 1..MaxFrameUnits}

\* The guard size is 1 << probestack_size_log2.
GuardSizes == {4096, 16384, 32768, 65536}

probe_count_of(frame, guard) == frame \div guard

\* i16::try_from(guard_size).unwrap() panics.
ProbePanics(frame, guard) ==
    probe_count_of(frame, guard) > PROBE_MAX_UNROLL /\ ~i16_fits(guard)

\* The instructions gen_inline_probestack appends when it returns.
gen_inline_probestack(cc, frame, guard) ==
    LET probe_count == probe_count_of(frame, guard)
    IN  (IF probe_count = 0 THEN <<>>
         ELSE IF probe_count <= PROBE_MAX_UNROLL
         THEN Concat([k \in 1..probe_count |->
                         gen_sp_reg_adjust(0 - guard)
                         \o <<StoreImm8(0, MemArg_reg(stack_reg))>>],
                     probe_count)
         ELSE <<IF i16_fits(probe_count)
                THEN Mov32SImm16(writable_spilltmp_reg, probe_count)
                ELSE Mov32Imm(writable_spilltmp_reg, probe_count),
                StackProbeLoop(writable_spilltmp_reg, guard)>>)
        \o gen_sp_reg_adjust(probe_count * guard)

InitProbe ==
    /\ frame_size \in FrameSizes
    /\ guard_size \in GuardSizes
    /\ call_conv \in CallConvs
    /\ pc = "probe"
    /\ insts = <<>>
    /\ pos = 0
    /\ machine = EntryMachine
    /\ callee_pop_size = 0
    /\ dest = [kind |-> "Direct"]
    /\ temp_dest = {}
    /\ RetvalIdle
    /\ ArgLocsIdle
    /\ FrameIdle
    /\ RegistryIdle

\* gen_inline_probestack is called.
GenInlineProbestack ==
    /\ pc = "probe"
    /\ IF ProbePanics(frame_size, guard_size)
       THEN /\ pc' = "panic"
            /\ insts' = insts
       ELSE /\ pc' = "run_probe"
            /\ insts' = insts \o gen_inline_probestack(call_conv, frame_size,
                                                       guard_size)
    /\ UNCHANGED <<code_fixed, machine, callee_pop_size, dest, temp_dest>>

NextProbe == GenInlineProbestack \/ RunInsts

SpecProbe == InitProbe /\ [][NextProbe]_vars

(***************************************************************************)
(* C25.                                                                    *)
(***************************************************************************)
ProbeCount == frame_size \div guard_size

\* The addresses probed, in order.
Probed ==
    SelectSeq(machine.trace, LAMBDA t : t.op = "probe")

IsProbeStore(i) == i.op = "StoreImm8"

IsProbeLoop(i) == i.op = "StackProbeLoop"

\* What C25 says of the emitted instructions and of their effect.
ProbeShape ==
    /\ pc \in {"run_probe", "probed"} =>
           /\ ProbeCount = 0 => insts = <<>>
           /\ ProbeCount >= 1 /\ ProbeCount <= 2 =>
                  /\ Len(insts) = 2 * ProbeCount + 1
                  /\ \A k \in 1..ProbeCount :
                         /\ IsSpAdjust(insts[2 * k - 1])
                         /\ insts[2 * k - 1].imm = 0 - guard_size
                         /\ IsProbeStore(insts[2 * k])
                  /\ Positions(IsProbeLoop) = {}
           /\ ProbeCount > 2 =>
                  /\ Cardinality(Positions(IsProbeLoop)) = 1
                  /\ Positions(IsProbeStore) = {}
           /\ ProbeCount > 0 =>
                  /\ IsSpAdjust(insts[Len(insts)])
                  /\ insts[Len(insts)].imm = ProbeCount * guard_size
    /\ pc = "probed" =>
           /\ SP = EntrySP
           /\ Len(Probed) = ProbeCount
           /\ \A k \in 1..Len(Probed) :
                  Probed[k].addr = EntrySP - k * guard_size

\* C25: for every frame_size and guard_size gen_inline_probestack returns
\* instructions; they are none when probe_count = frame_size / guard_size
\* is 0, probe_count pairs of a decrement by guard_size and a store when
\* it is 1 or 2, a counted loop of probe_count iterations otherwise,
\* followed by an increment by probe_count * guard_size; when they have run
\* the stack pointer has its value from before the probes.
C25_ProbeRestoresStackPointer ==
    /\ pc # "panic"
    /\ ProbeShape

\* The same for the calls that return: gen_inline_probestack returns unless
\* the loop is needed and guard_size is above 32767.
C25_WhenGuardFits ==
    /\ pc = "panic" => ProbeCount > 2 /\ guard_size > 32767
    /\ pc = "probe" /\ (ProbeCount <= 2 \/ guard_size <= 32767) =>
           ~ProbePanics(frame_size, guard_size)
    /\ ProbeShape

(***************************************************************************)
(* C27.                                                                    *)
(***************************************************************************)
\* The callee-saved registers of a convention: r6..r15, or r8..r15 under
\* Tail, and f8..f15.
CalleeSaved(cc, r) ==
    IF r.class = "Int"
    THEN r.hw_enc \in (IF cc = "Tail" THEN 8..15 ELSE 6..15)
    ELSE r.hw_enc \in 8..15

\* C27: every register of the clobbered_callee_saves list that
\* compute_frame_layout returns is callee-saved under the convention
\* (integer r6..r15, under Tail r8..r15; floating f8..f15); a written
\* register is in the list exactly when it is callee-saved.
C27_OnlyCalleeSaved ==
    pc = "done" /\ frame_layout # {} =>
        /\ \A k \in 1..Len(Layout.clobbered_callee_saves) :
               CalleeSaved(call_conv, Layout.clobbered_callee_saves[k])
        /\ \A k \in 1..Len(regs) :
               Contains(Layout.clobbered_callee_saves, regs[k])
                   <=> CalleeSaved(call_conv, regs[k])

\* A tail-convention function that wrote r6, r8 and f7 saves r8 only.
C27_Witness ==
    /\ pc = "done"
    /\ frame_layout # {}
    /\ call_conv = "Tail"
    /\ Contains(regs, gpr(6)) /\ Contains(regs, gpr(8)) /\ Contains(regs, vr(7))
    /\ Contains(Layout.clobbered_callee_saves, gpr(8))
    /\ ~Contains(Layout.clobbered_callee_saves, gpr(6))
    /\ ~Contains(Layout.clobbered_callee_saves, vr(7))

(***************************************************************************)
(* C30.                                                                    *)
(***************************************************************************)
\* The positions of the returned locations that are in a register: the
\* register slots, the by-reference pointers in a register, and the
\* return-area pointer, which is the last location.
InRegister == {i \in 1..Len(args) : InReg(args[i])}

\* C30: in the locations compute_arg_locs returns, no register is given to
\* two locations: the registers of the register slots, of the by-reference
\* pointers held in a register and of the return-area pointer are pairwise
\* different.
C30_RegistersDistinct ==
    Done =>
        \A i, j \in InRegister :
            i # j => ArgSlot(args[i]).reg # ArgSlot(args[j]).reg

\* A call with a return-area pointer returns a by-reference pointer and an
\* integer value in registers, next to the return-area pointer.
C30_Witness ==
    /\ Done
    /\ ret_area_ptr # {}
    /\ Len(args) \in InRegister
    /\ \E i, j \in InRegister :
           /\ args[i].kind = "ImplicitPtrArg"
           /\ args[j].kind = "Slots" /\ j < Len(args)
           /\ ArgSlot(args[j]).reg.class = "Int"

=============================================================================
